---- MODULE Spec2Model ----
(***************************************************************************)
(* Model of the matching and ranking engine of job-finder                  *)
(* (src/agents/matcher.py, class SmartMatcher, and the records of          *)
(* src/models/models.py), of the job search (src/agents/job_scraper.py),   *)
(* of the company research (src/agents/news_agent.py) and of the           *)
(* construction of the agents and of the pipeline.                         *)
(*                                                                         *)
(* Conventions.                                                            *)
(*  - A Python str is a sequence of one-character strings, so that         *)
(*    lower(), the whole-word regular expression and the substring test    *)
(*    are computed character by character.  Employer names are compared    *)
(*    only by ==, and are kept as plain strings.                           *)
(*  - A Python float is an exact rational <<n, d>> in lowest terms with    *)
(*    d > 0.  Rounding of IEEE doubles is not modelled.                    *)
(*  - An exception raised by a helper is a value [err |-> <name>, ...]     *)
(*    that the caller propagates.                                          *)
(***************************************************************************)
EXTENDS Integers, Sequences, FiniteSets, TLC

(***************************************************************************)
(* State.                                                                  *)
(*                                                                         *)
(* One call of SmartMatcher.match_and_rank:                                *)
(*   pc                     where the call stands                          *)
(*   cv_analysis, jobs, company_insights_list     its arguments            *)
(*   cv_embedding, job_embeddings, surplus        the embedder's answers   *)
(*   matches, i             the list under construction, the loop position *)
(*   result, error          what the call returned or raised               *)
(*   single_calls, batch_calls   the texts given to _create_embedding and  *)
(*                          the lists given to _create_embeddings_batch    *)
(*   api_calls              the inputs of client.embeddings.create         *)
(* One direct use of the score helpers:                                    *)
(*   s_pc, s_from, s_args, s_base, s_final, s_rec                          *)
(* The results of _calculate_skill_overlap, a pure function, on the skill  *)
(* list and the job descriptions of the run, computed when the run starts  *)
(* and never changed:                                                      *)
(*   skill_overlap_memo                                                    *)
(* One direct call of another helper (h_op names it):                      *)
(*   h_pc, h_op, h_args, h_out                                             *)
(* One call of JobScraper.search (src/agents/job_scraper.py):              *)
(*   search_pc              where the call stands                          *)
(*   use_sources            self.use_jsearch, self.use_brave_search,       *)
(*                          self.use_firecrawl                             *)
(*   num_jobs               its argument                                   *)
(*   expanded_queries       what _expand_job_query returned                *)
(*   call_index             the position in the loop over queries and      *)
(*                          sources                                        *)
(*   all_jobs               jsearch_all_jobs, brave_all_jobs,              *)
(*                          firecrawl_all_jobs                             *)
(*   search_calls           the backend calls made so far (history)        *)
(*   final_jobs, search_error   what the call returned or raised           *)
(* One call of NewsAgent.get_insights (src/agents/news_agent.py):          *)
(*   news_pc                where the call stands                          *)
(*   news_args              company_name, role, and whether the agent has  *)
(*                          an OpenAI client                               *)
(*   news_scan              the lists _search_firecrawl fills, the number  *)
(*                          of the next query, the seconds spent so far    *)
(*   news_out               what the call returned or raised               *)
(* One construction of a component, and the step started on it:            *)
(*   build_pc               where the construction stands                  *)
(*   build_env              the credentials present in the environment     *)
(*   build_target           the class constructed and its arguments        *)
(*   build_parts            the agents JobFinderPipeline.__init__ has      *)
(*                          assigned so far                                *)
(*   build_obj              the instance, once the constructor returned    *)
(*   build_error            what the constructor raised                    *)
(*   build_step             the search or ranking step started             *)
(* One call of one job source on its own:                                  *)
(*   source_pc              where the call stands                          *)
(*   source_args            the source, location and num_jobs              *)
(*   source_requests        the requests sent so far (history)             *)
(*   source_out             what the call returned or raised               *)
(* One call of JobFinderPipeline.run (src/pipeline/orchestrator.py):       *)
(*   run_pc                 where run stands                               *)
(*   run_tasks              the two awaitables of stage 1                  *)
(*   run_found              the number of jobs the search returned         *)
(*   run_insights           the get_insights awaitables, one per job       *)
(*   run_matcher            the call of match_and_rank                     *)
(* The handlers of the Flask server (src/api/server.py):                   *)
(*   latest_matches         the global of that name                        *)
(*   search_config          the global of that name                        *)
(*   api_disk               the CV files saved by run_pipeline             *)
(*   api_post               the thread of a POST /api/run-pipeline         *)
(*   api_get                the thread of a GET /api/job-matches           *)
(***************************************************************************)
VARIABLES pc, cv_analysis, jobs, company_insights_list, cv_embedding,
          job_embeddings, surplus, matches, i, result, error,
          single_calls, batch_calls, api_calls,
          s_pc, s_from, s_args, s_base, s_final, s_rec,
          skill_overlap_memo,
          h_pc, h_op, h_args, h_out,
          search_pc, use_sources, num_jobs, expanded_queries, call_index,
          all_jobs, search_calls, final_jobs, search_error,
          news_pc, news_args, news_scan, news_out,
          build_pc, build_env, build_target, build_parts, build_obj,
          build_error, build_step,
          source_pc, source_args, source_requests, source_out,
          run_pc, run_tasks, run_found, run_insights, run_matcher,
          latest_matches, search_config, api_disk, api_post, api_get

matcherVars == <<pc, cv_analysis, jobs, company_insights_list, cv_embedding,
                 job_embeddings, surplus, matches, i, result, error,
                 single_calls, batch_calls, api_calls>>

scoreVars == <<s_pc, s_from, s_args, s_base, s_final, s_rec>>

helperVars == <<h_pc, h_op, h_args, h_out>>

\* the variables of the components other than the matching call and the
\* score helpers
searchVars == <<search_pc, use_sources, num_jobs, expanded_queries, call_index,
                all_jobs, search_calls, final_jobs, search_error>>

newsVars == <<news_pc, news_args, news_scan, news_out>>

buildVars == <<build_pc, build_env, build_target, build_parts, build_obj,
               build_error, build_step>>

sourceVars == <<source_pc, source_args, source_requests, source_out>>

runVars == <<run_pc, run_tasks, run_found, run_insights, run_matcher>>

apiVars == <<latest_matches, search_config, api_disk, api_post, api_get>>

farVars == <<helperVars, searchVars, newsVars, buildVars, sourceVars, runVars, apiVars>>

vars == <<matcherVars, scoreVars, skill_overlap_memo, farVars>>

(***************************************************************************)
(* Bounds of the model.                                                    *)
(***************************************************************************)
\* longest job list handed to match_and_rank
MaxJobs == 2
\* most vectors the embedding service returns beyond one per job
MaxSurplus == 1
\* scores handed directly to the score helpers are k / GridDen, 0 <= k/GridDen <= 100
GridDen == 2

(***************************************************************************)
(* Exact rationals standing for Python floats.                             *)
(***************************************************************************)
Abs(x) == IF x < 0 THEN -x ELSE x

RECURSIVE GCD(_, _)
GCD(a, b) == IF b = 0 THEN a ELSE GCD(b, a % b)

Rat(n, d) == LET g == GCD(Abs(n), d) IN <<n \div g, d \div g>>

RInt(k) == <<k, 1>>

RAdd(a, b) == Rat(a[1] * b[2] + b[1] * a[2], a[2] * b[2])

RSub(a, b) == Rat(a[1] * b[2] - b[1] * a[2], a[2] * b[2])

RMulInt(a, k) == Rat(a[1] * k, a[2])

RLt(a, b) == a[1] * b[2] < b[1] * a[2]

RLe(a, b) == a[1] * b[2] <= b[1] * a[2]

RGe(a, b) == RLe(b, a)

\* Python's min(a, b) and max(a, b): the first argument unless the second is
\* strictly smaller (larger).
PyMin(a, b) == IF RLt(b, a) THEN b ELSE a

PyMax(a, b) == IF RLt(a, b) THEN b ELSE a

IntMin(a, b) == IF b < a THEN b ELSE a

(***************************************************************************)
(* Characters and strings.                                                 *)
(***************************************************************************)
UpperChars == <<"A","B","C","D","E","F","G","H","I","J","K","L","M",
                "N","O","P","Q","R","S","T","U","V","W","X","Y","Z">>

LowerChars == <<"a","b","c","d","e","f","g","h","i","j","k","l","m",
                "n","o","p","q","r","s","t","u","v","w","x","y","z">>

DigitChars == <<"0","1","2","3","4","5","6","7","8","9">>

Range(f) == {f[k] : k \in DOMAIN f}

LowerOf == [c \in Range(UpperChars) |->
              LowerChars[CHOOSE k \in DOMAIN UpperChars : UpperChars[k] = c]]

WordChars ==
  Range(UpperChars) \cup Range(LowerChars) \cup Range(DigitChars) \cup {"_"}

\* str.lower() on one character
LowerChar(c) == IF c \in DOMAIN LowerOf THEN LowerOf[c] ELSE c

\* str.lower()
Lower(s) == [k \in DOMAIN s |-> LowerChar(s[k])]

\* \w of the regular expression
IsWordChar(c) == c \in WordChars

\* str.split() separators
IsSpace(c) == c \in {" ", "\t", "\n", "\r"}

\* pat occurs in text at index j (1-based)
MatchAt(pat, text, j) == SubSeq(text, j, j + Len(pat) - 1) = pat

\* the indices at which pat fits into text
Starts(pat, text) == 1..(Len(text) - Len(pat) + 1)

\* `pat in text`
Contains(pat, text) == \E j \in Starts(pat, text) : MatchAt(pat, text, j)

\* \b holds between text[p] and text[p + 1] (p = 0: start, p = Len: end)
WordBoundary(text, p) ==
  LET before == p >= 1 /\ IsWordChar(text[p])
      after  == p < Len(text) /\ IsWordChar(text[p + 1])
  IN  before # after

\* re.search(r'\b' + re.escape(pat) + r'\b', text)
SearchWholeWord(pat, text) ==
  \E j \in Starts(pat, text) :
     /\ MatchAt(pat, text, j)
     /\ WordBoundary(text, j - 1)
     /\ WordBoundary(text, j - 1 + Len(pat))

\* e in list
InList(e, list) == \E k \in DOMAIN list : list[k] = e

(***************************************************************************)
(* Text Embedder: preprocessing of a text before it is sent.               *)
(***************************************************************************)
MaxEmbedChars == 8000

\* " ".join(text.split()): every character that is not white space is kept,
\* and a run of white space that has a word before it and a word after it
\* leaves one space, at the place of its first character.
CollapseWhitespace(text) ==
  LET Kept(k) ==
        IF ~IsSpace(text[k]) THEN TRUE
        ELSE /\ k > 1
             /\ ~IsSpace(text[k - 1])
             /\ \E j \in (k + 1)..Len(text) : ~IsSpace(text[j])
      indexed == [k \in DOMAIN text |-> <<k, text[k]>>]
      IsKept(e) == Kept(e[1])
      kept == SelectSeq(indexed, IsKept)
  IN  [k \in DOMAIN kept |-> IF IsSpace(kept[k][2]) THEN " " ELSE kept[k][2]]

\* text[:8000]
Truncate(text) ==
  IF Len(text) > MaxEmbedChars THEN SubSeq(text, 1, MaxEmbedChars) ELSE text

\* A deviation of the preprocessing: the text is cut before the white space
\* is collapsed.
CleanTextCutFirst(text) == CollapseWhitespace(Truncate(text))

CleanText(text) == Truncate(CollapseWhitespace(text))

\* cleaned_texts of _create_embeddings_batch
CleanedTexts(texts) == [k \in DOMAIN texts |-> CleanText(texts[k])]

(***************************************************************************)
(* Similarity Scorer.                                                      *)
(***************************************************************************)
RECURSIVE DotFrom(_, _, _)
DotFrom(a, b, k) == IF k > Len(a) THEN 0 ELSE a[k] * b[k] + DotFrom(a, b, k + 1)

\* floor of the square root; the vectors of the model have integral norms
ISqrt(n) == CHOOSE r \in 0..n : r * r <= n /\ (r + 1) * (r + 1) > n

\* np.linalg.norm
Norm(v) == ISqrt(DotFrom(v, v, 1))

\* A deviation of _cosine_similarity: no test for a zero magnitude; numpy
\* divides 0.0 by 0.0 and gives nan, written <<0, 0>>.
_cosine_similarity_no_zero_test(vec1, vec2) ==
  IF Len(vec1) # Len(vec2)
    THEN [err |-> "ValueError", value |-> RInt(0)]
    ELSE LET dot_product == DotFrom(vec1, vec2, 1)
             magnitude1  == Norm(vec1)
             magnitude2  == Norm(vec2)
         IN  IF magnitude1 * magnitude2 = 0
               THEN [err |-> "none", value |-> <<0, 0>>]
               ELSE [err |-> "none",
                     value |-> Rat(dot_product, magnitude1 * magnitude2)]

\* A deviation of _cosine_similarity: the products are summed over
\* zip(vec1, vec2), which stops at the shorter vector.
_cosine_similarity_zip(vec1, vec2) ==
  LET n == IntMin(Len(vec1), Len(vec2))
      dot_product == DotFrom(SubSeq(vec1, 1, n), SubSeq(vec2, 1, n), 1)
      magnitude1  == Norm(vec1)
      magnitude2  == Norm(vec2)
  IN  IF magnitude1 = 0 \/ magnitude2 = 0
        THEN [err |-> "none", value |-> RInt(0)]
        ELSE [err |-> "none", value |-> Rat(dot_product, magnitude1 * magnitude2)]

\* np.dot raises ValueError on vectors of different lengths, before the
\* magnitudes are looked at.
_cosine_similarity(vec1, vec2) ==
  IF Len(vec1) # Len(vec2)
    THEN [err |-> "ValueError", value |-> RInt(0)]
    ELSE LET dot_product == DotFrom(vec1, vec2, 1)
             magnitude1  == Norm(vec1)
             magnitude2  == Norm(vec2)
         IN  IF magnitude1 = 0 \/ magnitude2 = 0
               THEN [err |-> "none", value |-> RInt(0)]
               ELSE [err |-> "none",
                     value |-> Rat(dot_product, magnitude1 * magnitude2)]

(***************************************************************************)
(* Skill Overlap Analyzer.                                                 *)
(***************************************************************************)
common_tech_skills ==
  << <<"P","y","t","h","o","n">>,  \* Python
     <<"J","a","v","a">>,  \* Java
     <<"J","a","v","a","S","c","r","i","p","t">>,  \* JavaScript
     <<"T","y","p","e","S","c","r","i","p","t">>,  \* TypeScript
     <<"G","o">>,  \* Go
     <<"R","u","s","t">>,  \* Rust
     <<"C","+","+">>,  \* C++
     <<"D","o","c","k","e","r">>,  \* Docker
     <<"K","u","b","e","r","n","e","t","e","s">>,  \* Kubernetes
     <<"A","W","S">>,  \* AWS
     <<"A","z","u","r","e">>,  \* Azure
     <<"G","C","P">>,  \* GCP
     <<"R","e","a","c","t">>,  \* React
     <<"V","u","e">>,  \* Vue
     <<"A","n","g","u","l","a","r">>,  \* Angular
     <<"N","o","d","e",".","j","s">>,  \* Node.js
     <<"P","o","s","t","g","r","e","S","Q","L">>,  \* PostgreSQL
     <<"M","o","n","g","o","D","B">>,  \* MongoDB
     <<"R","e","d","i","s">>,  \* Redis
     <<"K","a","f","k","a">>,  \* Kafka
     <<"R","a","b","b","i","t","M","Q">>,  \* RabbitMQ
     <<"G","r","a","p","h","Q","L">>,  \* GraphQL
     <<"R","E","S","T">>,  \* REST
     <<"C","I","/","C","D">>,  \* CI/CD
     <<"J","e","n","k","i","n","s">>,  \* Jenkins
     <<"G","i","t","L","a","b">>,  \* GitLab
     <<"G","i","t","H","u","b"," ","A","c","t","i","o","n","s">>,  \* GitHub Actions
     <<"T","e","r","r","a","f","o","r","m">>,  \* Terraform
     <<"A","n","s","i","b","l","e">>,  \* Ansible
     <<"L","i","n","u","x">> >>  \* Linux

\* A deviation of _calculate_skill_overlap: a vocabulary term is left out of
\* the gaps when the candidate has it in any letter case.
_calculate_skill_overlap_gaps_any_case(cv_skills, job_description) ==
  LET job_desc_lower == Lower(job_description)
      IsOverlap(skill) == SearchWholeWord(Lower(skill), job_desc_lower)
      IsMissing(skill) ==
        /\ Contains(Lower(skill), job_desc_lower)
        /\ ~InList(Lower(skill), [k \in DOMAIN cv_skills |-> Lower(cv_skills[k])])
  IN  [overlapping |-> SelectSeq(cv_skills, IsOverlap),
       missing     |-> SelectSeq(common_tech_skills, IsMissing)]

\* deviation: the gap list keeps the terms the candidate already has
_calculate_skill_overlap_gaps_unfiltered(cv_skills, job_description) ==
  LET job_desc_lower == Lower(job_description)
      IsOverlap(skill) == SearchWholeWord(Lower(skill), job_desc_lower)
      IsMissing(skill) == Contains(Lower(skill), job_desc_lower)
  IN  [overlapping |-> SelectSeq(cv_skills, IsOverlap),
       missing     |-> SelectSeq(common_tech_skills, IsMissing)]

_calculate_skill_overlap(cv_skills, job_description) ==
  LET job_desc_lower == Lower(job_description)
      IsOverlap(skill) == SearchWholeWord(Lower(skill), job_desc_lower)
      IsMissing(skill) == /\ Contains(Lower(skill), job_desc_lower)
                          /\ ~InList(skill, cv_skills)
  IN  [overlapping |-> SelectSeq(cv_skills, IsOverlap),
       missing     |-> SelectSeq(common_tech_skills, IsMissing)]

(***************************************************************************)
(* Records of src/models/models.py.                                        *)
(***************************************************************************)
\* A Job is [title, company, description]; location, url, posted_date and
\* source are carried along unread by the matcher and are left out.
Job(title, company, description) ==
  [title |-> title, company |-> company, description |-> description]

Sentiments == {"positive", "neutral", "negative"}

Recommendations == {"Strong Match", "Good Fit", "Consider", "Skip"}

CompanyInsightsFull(company_name, reddit_sentiment, reddit_highlights) ==
  [company_name |-> company_name, reddit_sentiment |-> reddit_sentiment,
   reddit_highlights |-> reddit_highlights, recent_news |-> <<>>,
   culture_notes |-> <<>>, data_source |-> "multiple"]

\* CompanyInsights(company_name=..., reddit_sentiment=...): the lists default
\* to empty.
CompanyInsights(company_name, reddit_sentiment) ==
  CompanyInsightsFull(company_name, reddit_sentiment, <<>>)

\* JobMatch(...): pydantic rejects a score outside [0, 100] and a
\* recommendation outside the four labels.  input_index (the job's position
\* in the input list) and base_score (the score before the sentiment
\* adjustment) are history fields of the model, not fields of JobMatch.
JobMatch(job, company_insights, match_score, skill_overlap, skill_gaps, recommendation, reasoning, input_index, base_score) ==
  [err |-> IF /\ RGe(match_score, RInt(0))
              /\ RLe(match_score, RInt(100))
              /\ recommendation \in Recommendations
             THEN "none" ELSE "ValidationError",
   match |-> [job |-> job, company_insights |-> company_insights,
              match_score |-> match_score, skill_overlap |-> skill_overlap,
              skill_gaps |-> skill_gaps, recommendation |-> recommendation,
              reasoning |-> reasoning, input_index |-> input_index,
              base_score |-> base_score]]

(***************************************************************************)
(* Inputs of the model.                                                    *)
(***************************************************************************)
\* Candidate profiles: skills and years_of_experience (experience_level,
\* preferred_locations and key_achievements only feed the candidate text).
CvProfiles ==
  { [skills |-> <<>>, years_of_experience |-> 0],
    \* ["java", "Go"]
    [skills |-> << <<"j","a","v","a">>, <<"G","o">> >>, years_of_experience |-> 2],
    \* ["C", "R", "Go", "AWS", "GCP", "Vue", "SQL", "Rust"]
    [skills |-> << <<"C">>, <<"R">>, <<"G","o">>, <<"A","W","S">>, <<"G","C","P">>, <<"V","u","e">>, <<"S","Q","L">>, <<"R","u","s","t">> >>,
     years_of_experience |-> 3] }

\* "Dev" / "c r go aws gcp vue sql rust"
JobA == Job(<<"D","e","v">>, "Acme",
            <<"c"," ","r"," ","g","o"," ","a","w","s"," ","g","c","p"," ","v","u","e"," ","s","q","l"," ","r","u","s","t">>)

\* "Eng " / "Java JavaScript AWS Redis  Kafka Linux"
JobB == Job(<<"E","n","g"," ">>, "acme",
            <<"J","a","v","a"," ","J","a","v","a","S","c","r","i","p","t"," ","A","W","S"," ","R","e","d","i","s"," "," ","K","a","f","k","a"," ","L","i","n","u","x">>)

\* "Dev" / "sales team"
JobC == Job(<<"D","e","v">>, "Globex",
            <<"s","a","l","e","s"," ","t","e","a","m">>)

JobPool == {JobA, JobB, JobC}

\* all lists of length 0..n over S
SeqsUpTo(S, n) == UNION {[1..k -> S] : k \in 0..n}

JobLists == SeqsUpTo(JobPool, MaxJobs)

InsightLists ==
  { <<>>,
    <<CompanyInsights("Acme", "positive"),
      CompanyInsightsFull("Acme", "negative", <<"layoffs">>)>>,
    <<CompanyInsights("Acme", "negative"), CompanyInsights("Globex", "positive")>>,
    <<CompanyInsightsFull("Initech", "positive", <<"great team">>)>>,
    <<CompanyInsights("acme", "positive"), CompanyInsights("Acme", "neutral"),
      CompanyInsights("acme", "negative")>> }

\* Embedding vectors; every one has an integral norm.
CvVectors == { <<1, 0>>, <<-1, 0>>, <<0, 0>> }

JobVectors == { <<1, 0>>, <<3, 4>>, <<1>> }

\* What the embedding service may answer to a batch of k texts: at most k
\* vectors, or k vectors and up to MaxSurplus more.  Only the number of the
\* surplus vectors is kept: zip() never reads them.
BatchResponses(k) ==
  { r \in [vectors : SeqsUpTo(JobVectors, k), surplus : 0..MaxSurplus] :
      r.surplus = 0 \/ Len(r.vectors) = k }

(***************************************************************************)
(* _calculate_skill_overlap on the given pairs of a skill list and a job   *)
(* description.                                                            *)
(***************************************************************************)
SkillOverlapMemo(pairs) ==
  [p \in pairs |-> _calculate_skill_overlap(p[1], p[2])]

\* self._calculate_skill_overlap(cv_skills, job_description)
SkillOverlap(cv_skills, job_description) ==
  IF <<cv_skills, job_description>> \in DOMAIN skill_overlap_memo
    THEN skill_overlap_memo[<<cv_skills, job_description>>]
    ELSE _calculate_skill_overlap(cv_skills, job_description)

(***************************************************************************)
(* Score Composer.                                                         *)
(***************************************************************************)
\* A deviation of _calculate_base_score: the gap penalty is subtracted after
\* the clamp instead of before it.
_calculate_base_score_penalty_last(cv_vector, job_vector, cv_skills, job_description) ==
  LET similarity == _cosine_similarity(cv_vector, job_vector)
      skills == SkillOverlap(cv_skills, job_description)
      overlapping == skills.overlapping
      missing == skills.missing
      score0 == RMulInt(similarity.value, 50)
      score1 == IF overlapping # <<>>
                  THEN RAdd(score0, RInt(IntMin(Len(overlapping) * 4, 30)))
                  ELSE score0
      score2 == IF cv_skills # <<>>
                  THEN RAdd(score1, RMulInt(Rat(Len(overlapping), Len(cv_skills)), 20))
                  ELSE score1
      clamped == PyMax(RInt(0), PyMin(RInt(100), score2))
      score3 == IF missing # <<>>
                  THEN RSub(clamped, RInt(IntMin(Len(missing) * 1, 5)))
                  ELSE clamped
  IN  IF similarity.err # "none"
        THEN [err |-> similarity.err, value |-> RInt(0)]
        ELSE [err |-> "none", value |-> score3]

_calculate_base_score(cv_vector, job_vector, cv_skills, job_description) ==
  LET similarity == _cosine_similarity(cv_vector, job_vector)
      skills == SkillOverlap(cv_skills, job_description)
      overlapping == skills.overlapping
      missing == skills.missing
      score0 == RMulInt(similarity.value, 50)
      score1 == IF overlapping # <<>>
                  THEN RAdd(score0, RInt(IntMin(Len(overlapping) * 4, 30)))
                  ELSE score0
      score2 == IF cv_skills # <<>>
                  THEN RAdd(score1, RMulInt(Rat(Len(overlapping), Len(cv_skills)), 20))
                  ELSE score1
      score3 == IF missing # <<>>
                  THEN RSub(score2, RInt(IntMin(Len(missing) * 1, 5)))
                  ELSE score2
  IN  IF similarity.err # "none"
        THEN [err |-> similarity.err, value |-> RInt(0)]
        ELSE [err |-> "none", value |-> PyMax(RInt(0), PyMin(RInt(100), score3))]

\* A deviation of _apply_insights_bonus: the adjusted score is not clamped.
_apply_insights_bonus_unclamped(base_score, company_insights) ==
  IF company_insights.reddit_sentiment = "positive"
    THEN RAdd(base_score, RInt(5))
  ELSE IF company_insights.reddit_sentiment = "negative"
    THEN RSub(base_score, RInt(10))
  ELSE base_score

\* A deviation of _apply_insights_bonus: negative sentiment costs 5, not 10.
_apply_insights_bonus_symmetric(base_score, company_insights) ==
  LET score == IF company_insights.reddit_sentiment = "positive"
                 THEN RAdd(base_score, RInt(5))
               ELSE IF company_insights.reddit_sentiment = "negative"
                 THEN RSub(base_score, RInt(5))
               ELSE base_score
  IN  PyMax(RInt(0), PyMin(RInt(100), score))

_apply_insights_bonus(base_score, company_insights) ==
  LET score == IF company_insights.reddit_sentiment = "positive"
                 THEN RAdd(base_score, RInt(5))
               ELSE IF company_insights.reddit_sentiment = "negative"
                 THEN RSub(base_score, RInt(10))
               ELSE base_score
  IN  PyMax(RInt(0), PyMin(RInt(100), score))

\* A deviation of _generate_recommendation: strict comparisons.
_generate_recommendation_strict(score) ==
  IF RLt(RInt(80), score) THEN "Strong Match"
  ELSE IF RLt(RInt(65), score) THEN "Good Fit"
  ELSE IF RLt(RInt(50), score) THEN "Consider"
  ELSE "Skip"

_generate_recommendation(score) ==
  IF RGe(score, RInt(80)) THEN "Strong Match"
  ELSE IF RGe(score, RInt(65)) THEN "Good Fit"
  ELSE IF RGe(score, RInt(50)) THEN "Consider"
  ELSE "Skip"

\* list[:n]
Prefix(list, n) == SubSeq(list, 1, IntMin(Len(list), n))

\* One reasoning sentence: its fixed wording, the score it prints (the tier
\* sentence only) and the skills it lists.
Sentence(wording, score, items) ==
  [wording |-> wording, score |-> score, items |-> items]

\* deviation: the gap sentence names five terms, as the overlap sentence does
_generate_reasoning_five_gaps(score, skill_overlap, skill_gaps, company_insights) ==
  LET tier == IF RGe(score, RInt(80)) THEN "Excellent match with"
              ELSE IF RGe(score, RInt(65)) THEN "Good fit with"
              ELSE "Moderate fit with"
      r1 == <<Sentence(tier, score, <<>>)>>
      r2 == IF skill_overlap # <<>>
              THEN <<Sentence("Strong skill alignment:", RInt(0), Prefix(skill_overlap, 5))>>
              ELSE <<>>
      r3 == IF skill_gaps # <<>>
              THEN <<Sentence("Missing skills:", RInt(0), Prefix(skill_gaps, 5))>>
              ELSE <<>>
      r4 == IF company_insights.reddit_sentiment = "positive"
              THEN <<Sentence("Company has positive reviews and culture", RInt(0), <<>>)>>
            ELSE IF company_insights.reddit_sentiment = "negative"
              THEN <<Sentence("Company has some negative reviews", RInt(0), <<>>)>>
            ELSE <<>>
  IN  r1 \o r2 \o r3 \o r4

_generate_reasoning(score, skill_overlap, skill_gaps, company_insights) ==
  LET tier == IF RGe(score, RInt(80)) THEN "Excellent match with"
              ELSE IF RGe(score, RInt(65)) THEN "Good fit with"
              ELSE "Moderate fit with"
      r1 == <<Sentence(tier, score, <<>>)>>
      r2 == IF skill_overlap # <<>>
              THEN <<Sentence("Strong skill alignment:", RInt(0), Prefix(skill_overlap, 5))>>
              ELSE <<>>
      r3 == IF skill_gaps # <<>>
              THEN <<Sentence("Missing skills:", RInt(0), Prefix(skill_gaps, 3))>>
              ELSE <<>>
      r4 == IF company_insights.reddit_sentiment = "positive"
              THEN <<Sentence("Company has positive reviews and culture", RInt(0), <<>>)>>
            ELSE IF company_insights.reddit_sentiment = "negative"
              THEN <<Sentence("Company has some negative reviews", RInt(0), <<>>)>>
            ELSE <<>>
  IN  r1 \o r2 \o r3 \o r4

NoError == [stage |-> "none", kind |-> "none"]

\* how a call of the embedding service may fail
EmbedFailures == {"error", "timeout", "cancelled"}

(***************************************************************************)
(* match_and_rank, step 1: the candidate text and its embedding.           *)
(***************************************************************************)
RECURSIVE JoinFrom(_, _, _)
JoinFrom(list, sep, k) ==
  IF k > Len(list) THEN <<>>
  ELSE IF k = Len(list) THEN list[k]
  ELSE list[k] \o sep \o JoinFrom(list, sep, k + 1)

\* sep.join(list)
Join(list, sep) == JoinFrom(list, sep, 1)

RECURSIVE SkillsContextFrom(_, _)
SkillsContextFrom(cv, k) ==
  IF k > Len(cv.skills) THEN <<>>
  ELSE LET skill == cv.skills[k]
       IN  << <<"E","x","p","e","r","t"," ","i","n"," ">> \o skill,
              <<"P","r","o","f","e","s","s","i","o","n","a","l"," ">> \o skill \o <<" ","e","x","p","e","r","i","e","n","c","e">> >>
           \o (IF cv.years_of_experience >= 3
                 THEN << <<"A","d","v","a","n","c","e","d"," ">> \o skill \o <<" ","s","k","i","l","l","s">> >>
                 ELSE <<>>)
           \o SkillsContextFrom(cv, k + 1)

\* The candidate text: the skill phrases and the skill list on lines of
\* their own.  The fixed wording of the template and the role, level,
\* achievement and location lines are left out.
CvText(cv) ==
  <<"\n", " ">> \o Join(SkillsContextFrom(cv, 1), <<" ">>)
  \o <<"\n", "\n", " ">> \o Join(cv.skills, <<",", " ">>) \o <<"\n", " ">>

\* f"{job.title} {job.description}"
JobText(job) == job.title \o <<" ">> \o job.description

\* a job text as _create_embeddings_batch sends it
SentJobText(job) == CleanText(JobText(job))

JobTexts(job_list) == [k \in DOMAIN job_list |-> JobText(job_list[k])]

SentJobTexts(job_list) == [k \in DOMAIN job_list |-> SentJobText(job_list[k])]

\* _create_embedding(cv_text) answers
EmbedCandidate ==
  /\ pc = "start"
  /\ single_calls' = Append(single_calls, CvText(cv_analysis))
  /\ api_calls' = Append(api_calls,
                         [batch |-> FALSE, texts |-> <<CleanText(CvText(cv_analysis))>>])
  /\ \E v \in CvVectors : cv_embedding' = v
  /\ pc' = "cv_embedded"
  /\ UNCHANGED <<cv_analysis, jobs, company_insights_list, job_embeddings, surplus,
                 matches, i, result, error, batch_calls>>
  /\ UNCHANGED <<scoreVars, skill_overlap_memo, farVars>>

\* _create_embedding(cv_text) raises: nothing catches it
EmbedCandidateFails ==
  /\ pc = "start"
  /\ single_calls' = Append(single_calls, CvText(cv_analysis))
  /\ api_calls' = Append(api_calls,
                         [batch |-> FALSE, texts |-> <<CleanText(CvText(cv_analysis))>>])
  /\ \E f \in EmbedFailures : error' = [stage |-> "embed_candidate", kind |-> f]
  /\ pc' = "failed"
  /\ UNCHANGED <<cv_analysis, jobs, company_insights_list, cv_embedding,
                 job_embeddings, surplus, matches, i, result, batch_calls>>
  /\ UNCHANGED <<scoreVars, skill_overlap_memo, farVars>>

(***************************************************************************)
(* Step 2: the empty job list, and the batch embedding.                    *)
(***************************************************************************)
ReturnEmpty ==
  /\ pc = "cv_embedded"
  /\ jobs = <<>>
  /\ result' = matches
  /\ pc' = "returned"
  /\ UNCHANGED <<cv_analysis, jobs, company_insights_list, cv_embedding,
                 job_embeddings, surplus, matches, i, error,
                 single_calls, batch_calls, api_calls>>
  /\ UNCHANGED <<scoreVars, skill_overlap_memo, farVars>>

\* A deviation of the batch step: _create_embedding is called once per job
\* text instead of _create_embeddings_batch once.
EmbedBatchPerJob ==
  /\ pc = "cv_embedded"
  /\ jobs # <<>>
  /\ single_calls' = single_calls \o JobTexts(jobs)
  /\ api_calls' = api_calls \o [k \in DOMAIN jobs |->
                                  [batch |-> FALSE, texts |-> <<SentJobText(jobs[k])>>]]
  /\ \E r \in BatchResponses(Len(jobs)) :
        /\ job_embeddings' = r.vectors
        /\ surplus' = r.surplus
  /\ i' = 1
  /\ pc' = "scoring"
  /\ UNCHANGED <<cv_analysis, jobs, company_insights_list, cv_embedding,
                 matches, result, error, batch_calls>>
  /\ UNCHANGED <<scoreVars, skill_overlap_memo, farVars>>

\* _create_embeddings_batch(job_texts) answers: one call of the service
EmbedBatch ==
  /\ pc = "cv_embedded"
  /\ jobs # <<>>
  /\ batch_calls' = Append(batch_calls, JobTexts(jobs))
  /\ api_calls' = Append(api_calls,
                         [batch |-> TRUE, texts |-> SentJobTexts(jobs)])
  /\ \E r \in BatchResponses(Len(jobs)) :
        /\ job_embeddings' = r.vectors
        /\ surplus' = r.surplus
  /\ i' = 1
  /\ pc' = "scoring"
  /\ UNCHANGED <<cv_analysis, jobs, company_insights_list, cv_embedding,
                 matches, result, error, single_calls>>
  /\ UNCHANGED <<scoreVars, skill_overlap_memo, farVars>>

\* A deviation of the failing batch step: the exception is caught and
\* logged, and the call goes on with no job vectors.
EmbedBatchFailsSwallowed ==
  /\ pc = "cv_embedded"
  /\ jobs # <<>>
  /\ batch_calls' = Append(batch_calls, JobTexts(jobs))
  /\ api_calls' = Append(api_calls,
                         [batch |-> TRUE, texts |-> SentJobTexts(jobs)])
  /\ \E f \in EmbedFailures : error' = [stage |-> "embed_batch", kind |-> f]
  /\ job_embeddings' = <<>>
  /\ i' = 1
  /\ pc' = "scoring"
  /\ UNCHANGED <<cv_analysis, jobs, company_insights_list, cv_embedding,
                 surplus, matches, result, single_calls>>
  /\ UNCHANGED <<scoreVars, skill_overlap_memo, farVars>>

\* _create_embeddings_batch(job_texts) raises: nothing catches it
EmbedBatchFails ==
  /\ pc = "cv_embedded"
  /\ jobs # <<>>
  /\ batch_calls' = Append(batch_calls, JobTexts(jobs))
  /\ api_calls' = Append(api_calls,
                         [batch |-> TRUE, texts |-> SentJobTexts(jobs)])
  /\ \E f \in EmbedFailures : error' = [stage |-> "embed_batch", kind |-> f]
  /\ pc' = "failed"
  /\ UNCHANGED <<cv_analysis, jobs, company_insights_list, cv_embedding,
                 job_embeddings, surplus, matches, i, result, single_calls>>
  /\ UNCHANGED <<scoreVars, skill_overlap_memo, farVars>>

(***************************************************************************)
(* Step 3: one iteration of the loop over zip(jobs, job_embeddings).       *)
(***************************************************************************)
\* A deviation of the lookup: the last entry of the company wins.
FindInsightsLast(insights_list, company) ==
  LET hits == {k \in DOMAIN insights_list : insights_list[k].company_name = company}
  IN  IF hits = {}
        THEN CompanyInsights(company, "neutral")
        ELSE insights_list[CHOOSE k \in hits : \A h \in hits : k >= h]

\* next((ci for ci in company_insights_list if ci.company_name == company),
\*      CompanyInsights(company_name=company, reddit_sentiment="neutral"))
FindInsights(insights_list, company) ==
  LET hits == {k \in DOMAIN insights_list : insights_list[k].company_name = company}
  IN  IF hits = {}
        THEN CompanyInsights(company, "neutral")
        ELSE insights_list[CHOOSE k \in hits : \A h \in hits : k <= h]

\* the body of the loop for the job at position k
MatchJob(cv, cv_emb, job, job_embedding, insights_list, k) ==
  LET skills == SkillOverlap(cv.skills, job.description)
      base_score == _calculate_base_score(cv_emb, job_embedding, cv.skills,
                                          job.description)
      company_insights == FindInsights(insights_list, job.company)
      final_score == _apply_insights_bonus(base_score.value, company_insights)
      recommendation == _generate_recommendation(final_score)
      reasoning == _generate_reasoning(final_score, skills.overlapping,
                                       skills.missing, company_insights)
      made == JobMatch(job, company_insights, final_score, skills.overlapping,
                       skills.missing, recommendation, reasoning, k,
                       base_score.value)
  IN  IF base_score.err # "none"
        THEN [err |-> base_score.err, match |-> made.match]
        ELSE made

\* the pairs zip() yields
ZipLen == IntMin(Len(jobs), Len(job_embeddings))

ScoreJob ==
  /\ pc = "scoring"
  /\ i <= ZipLen
  /\ \E r \in {MatchJob(cv_analysis, cv_embedding, jobs[i], job_embeddings[i],
                         company_insights_list, i)} :
         IF r.err = "none"
           THEN /\ matches' = Append(matches, r.match)
                /\ i' = i + 1
                /\ UNCHANGED <<pc, error>>
           ELSE /\ pc' = "failed"
                /\ error' = [stage |-> "scoring", kind |-> r.err]
                /\ UNCHANGED <<matches, i>>
  /\ UNCHANGED <<cv_analysis, jobs, company_insights_list, cv_embedding,
                 job_embeddings, surplus, result, single_calls, batch_calls,
                 api_calls>>
  /\ UNCHANGED <<scoreVars, skill_overlap_memo, farVars>>

(***************************************************************************)
(* Step 4: matches.sort(key=lambda m: m.match_score, reverse=True).        *)
(***************************************************************************)
\* m goes in front of the first element with a strictly smaller score
InsertDescending(sorted, m) ==
  LET smaller == {k \in DOMAIN sorted : RLt(sorted[k].match_score, m.match_score)}
  IN  IF smaller = {}
        THEN Append(sorted, m)
        ELSE LET p == CHOOSE k \in smaller : \A h \in smaller : k <= h
             IN  SubSeq(sorted, 1, p - 1) \o <<m>> \o SubSeq(sorted, p, Len(sorted))

RECURSIVE SortFrom(_, _, _)
SortFrom(list, k, sorted) ==
  IF k > Len(list) THEN sorted
  ELSE SortFrom(list, k + 1, InsertDescending(sorted, list[k]))

\* A deviation of the sort: sorted ascending (stable) and then reversed, which
\* puts equal scores in reverse input order.
SortAscendingThenReverse(list) ==
  LET key(m) == m.match_score
      before(a, b) == \/ RLt(key(list[a]), key(list[b]))
                      \/ key(list[a]) = key(list[b]) /\ a < b
      rank(a) == Cardinality({b \in DOMAIN list : before(b, a)}) + 1
      ascending == [p \in DOMAIN list |-> list[CHOOSE a \in DOMAIN list : rank(a) = p]]
  IN  [p \in DOMAIN list |-> ascending[Len(list) + 1 - p]]

SortByScoreDescending(list) == SortFrom(list, 1, <<>>)

SortAndReturn ==
  /\ pc = "scoring"
  /\ i > ZipLen
  /\ matches' = SortByScoreDescending(matches)
  /\ result' = SortByScoreDescending(matches)
  /\ pc' = "returned"
  /\ UNCHANGED <<cv_analysis, jobs, company_insights_list, cv_embedding,
                 job_embeddings, surplus, i, error, single_calls, batch_calls,
                 api_calls>>
  /\ UNCHANGED <<scoreVars, skill_overlap_memo, farVars>>

(***************************************************************************)
(* The specification of match_and_rank.                                    *)
(***************************************************************************)
ScoreIdle ==
  /\ s_pc = "idle"
  /\ s_from = "idle"
  /\ s_args = [cv_embedding |-> <<>>, job_embedding |-> <<>>, cv_skills |-> <<>>,
               job_description |-> <<>>,
               company_insights |-> CompanyInsights("", "neutral")]
  /\ s_base = RInt(0)
  /\ s_final = RInt(0)
  /\ s_rec = ""

HelperIdle ==
  /\ h_pc = "idle"
  /\ h_op = "none"
  /\ h_args = <<>>
  /\ h_out = <<>>

SearchIdle ==
  /\ search_pc = "idle"
  /\ use_sources = <<>>
  /\ num_jobs = 0
  /\ expanded_queries = <<>>
  /\ call_index = 0
  /\ all_jobs = <<>>
  /\ search_calls = <<>>
  /\ final_jobs = <<>>
  /\ search_error = "none"

NewsIdle ==
  /\ news_pc = "idle"
  /\ news_args = <<>>
  /\ news_scan = <<>>
  /\ news_out = <<>>

BuildIdle ==
  /\ build_pc = "idle"
  /\ build_env = {}
  /\ build_target = <<>>
  /\ build_parts = <<>>
  /\ build_obj = <<>>
  /\ build_error = "none"
  /\ build_step = "none"

SourceIdle ==
  /\ source_pc = "idle"
  /\ source_args = <<>>
  /\ source_requests = <<>>
  /\ source_out = <<>>

RunIdle ==
  /\ run_pc = "idle"
  /\ run_tasks = [cv |-> "pending", jobs |-> "pending"]
  /\ run_found = 0
  /\ run_insights = <<>>
  /\ run_matcher = "not_invoked"

ApiIdle ==
  /\ latest_matches = <<>>
  /\ search_config = <<>>
  /\ api_disk = {}
  /\ api_post = <<>>
  /\ api_get = <<>>

FarIdle == HelperIdle /\ SearchIdle /\ NewsIdle /\ BuildIdle /\ SourceIdle /\ RunIdle /\ ApiIdle

MatcherIdle ==
  /\ pc = "idle"
  /\ cv_analysis = [skills |-> <<>>, years_of_experience |-> 0]
  /\ jobs = <<>>
  /\ company_insights_list = <<>>
  /\ cv_embedding = <<>>
  /\ job_embeddings = <<>>
  /\ surplus = 0
  /\ matches = <<>>
  /\ i = 0
  /\ result = <<>>
  /\ error = NoError
  /\ single_calls = <<>>
  /\ batch_calls = <<>>
  /\ api_calls = <<>>

Init ==
  /\ pc = "start"
  /\ cv_analysis \in CvProfiles
  /\ jobs \in JobLists
  /\ company_insights_list \in InsightLists
  /\ cv_embedding = <<>>
  /\ job_embeddings = <<>>
  /\ surplus = 0
  /\ matches = <<>>
  /\ i = 0
  /\ result = <<>>
  /\ error = NoError
  /\ single_calls = <<>>
  /\ batch_calls = <<>>
  /\ api_calls = <<>>
  /\ ScoreIdle
  /\ FarIdle
  /\ skill_overlap_memo =
        SkillOverlapMemo({<<cv_analysis.skills, jobs[k].description>> : k \in DOMAIN jobs})

Next ==
  \/ EmbedCandidate
  \/ EmbedCandidateFails
  \/ ReturnEmpty
  \/ EmbedBatch
  \/ EmbedBatchFails
  \/ ScoreJob
  \/ SortAndReturn

Spec == Init /\ [][Next]_vars

(***************************************************************************)
(* Direct use of the score helpers, as the unit tests use them:            *)
(* _calculate_base_score on its four arguments, _apply_insights_bonus on   *)
(* a base score of the documented range 0-100, _generate_recommendation    *)
(* on a score of that range.  s_from tells where the run started.          *)
(***************************************************************************)
ScoreVectors ==
  { <<1, 0>>, <<-1, 0>>, <<0, 0>>, <<3, 4>>, <<4, 3>>, <<-3, -4>>, <<1>> }

ScoreGrid == { Rat(k, GridDen) : k \in 0..(100 * GridDen) }

ScoreArgs ==
  [cv_embedding : ScoreVectors,
   job_embedding : ScoreVectors,
   cv_skills : {cv.skills : cv \in CvProfiles},
   job_description : {job.description : job \in JobPool},
   company_insights : {CompanyInsights("Acme", sentiment) : sentiment \in Sentiments}]

\* arguments of a run that starts from a given score: only the sentiment is read
SentimentArgs ==
  [cv_embedding : {<<>>}, job_embedding : {<<>>}, cv_skills : {<<>>},
   job_description : {<<>>},
   company_insights : {CompanyInsights("Acme", sentiment) : sentiment \in Sentiments}]

ScoreInit ==
  /\ MatcherIdle
  /\ FarIdle
  /\ s_rec = ""
  /\ \/ /\ s_from = "args"
        /\ s_pc = "args"
        /\ s_args \in ScoreArgs
        /\ s_base = RInt(0)
        /\ s_final = RInt(0)
        /\ skill_overlap_memo =
              SkillOverlapMemo({<<s_args.cv_skills, s_args.job_description>>})
     \/ /\ s_from = "base"
        /\ s_pc = "base"
        /\ s_args \in SentimentArgs
        /\ s_base \in ScoreGrid
        /\ s_final = RInt(0)
        /\ skill_overlap_memo = SkillOverlapMemo({})
     \/ /\ s_from = "final"
        /\ s_pc = "final"
        /\ s_args \in SentimentArgs
        /\ s_base = RInt(0)
        /\ s_final \in ScoreGrid
        /\ skill_overlap_memo = SkillOverlapMemo({})

CalculateBaseScore ==
  /\ s_pc = "args"
  /\ LET r == _calculate_base_score(s_args.cv_embedding, s_args.job_embedding,
                                    s_args.cv_skills, s_args.job_description)
     IN  IF r.err = "none"
           THEN s_base' = r.value /\ s_pc' = "base"
           ELSE s_pc' = "raised" /\ UNCHANGED s_base
  /\ UNCHANGED <<s_from, s_args, s_final, s_rec>>
  /\ UNCHANGED <<matcherVars, skill_overlap_memo, farVars>>

ApplyInsightsBonus ==
  /\ s_pc = "base"
  /\ s_final' = _apply_insights_bonus(s_base, s_args.company_insights)
  /\ s_pc' = "final"
  /\ UNCHANGED <<s_from, s_args, s_base, s_rec>>
  /\ UNCHANGED <<matcherVars, skill_overlap_memo, farVars>>

GenerateRecommendation ==
  /\ s_pc = "final"
  /\ s_rec' = _generate_recommendation(s_final)
  /\ s_pc' = "done"
  /\ UNCHANGED <<s_from, s_args, s_base, s_final>>
  /\ UNCHANGED <<matcherVars, skill_overlap_memo, farVars>>

ScoreNext ==
  \/ CalculateBaseScore
  \/ ApplyInsightsBonus
  \/ GenerateRecommendation

SpecScore == ScoreInit /\ [][ScoreNext]_vars

(***************************************************************************)
(* Properties of match_and_rank (specification Spec).                      *)
(***************************************************************************)
\* every result built so far in the call, and every result returned
Produced == Range(matches) \cup Range(result)

\* C1: every call of match_and_rank that returns gives as many results as
\* there were input jobs, however many vectors the batch call returned.
\* zip(jobs, job_embeddings) stops at the shorter list, so this fails when
\* the batch call returns fewer vectors than texts.
C1_LengthEqualsJobs ==
  pc = "returned" => Len(result) = Len(jobs)

\* C1 case: two jobs, one vector from the batch call, one result returned.
C1_Witness ==
  /\ pc = "returned"
  /\ Len(jobs) = 2
  /\ Len(job_embeddings) = 1
  /\ Len(result) = 1

\* C1 case: a call with an empty job list ends in the error of the
\* candidate embedding.
C1_EmptyListFails ==
  /\ pc = "failed"
  /\ jobs = <<>>
  /\ error.stage = "embed_candidate"

\* C2: a call with an empty job list returns [] having called neither
\* embedding entry point.  The candidate embedding is requested before the
\* empty-list test, so this fails.
C2_EmptyListNoEmbedderCall ==
  (pc = "returned" /\ jobs = <<>>) =>
    /\ result = <<>>
    /\ single_calls = <<>>
    /\ batch_calls = <<>>
    /\ api_calls = <<>>

\* C2 case: a call with an empty job list has returned [] after one call of
\* the single-text entry point, which called the embedding service.
C2_Witness ==
  /\ pc = "returned"
  /\ jobs = <<>>
  /\ result = <<>>
  /\ Len(single_calls) = 1
  /\ Len(api_calls) = 1

\* C3: the base score and the sentiment-adjusted score of every result lie
\* in [0, 100], so constructing a JobMatch never fails on its score and every
\* returned result has 0 <= match_score <= 100.
C3_ScoreBounds ==
  /\ \A m \in Produced :
        /\ RLe(RInt(0), m.base_score) /\ RLe(m.base_score, RInt(100))
        /\ RLe(RInt(0), m.match_score) /\ RLe(m.match_score, RInt(100))
  /\ error.kind # "ValidationError"

\* C3 case: a returned result whose base score is 100 at a company with
\* positive sentiment: 105 is clamped to 100.
C3_Witness ==
  /\ pc = "returned"
  /\ \E m \in Range(result) :
        /\ m.base_score = RInt(100)
        /\ m.company_insights.reddit_sentiment = "positive"
        /\ m.match_score = RInt(100)

\* C3 case: a returned result whose similarity is negative and whose company
\* has negative sentiment: both clamps at 0 bind.
C3_LowerClampReached ==
  /\ pc = "returned"
  /\ \E m \in Range(result) :
        /\ m.base_score = RInt(0)
        /\ m.match_score = RInt(0)
        /\ m.company_insights.reddit_sentiment = "negative"
        /\ _cosine_similarity(cv_embedding, job_embeddings[m.input_index]).value[1] < 0

\* C4: the returned list is the stable descending sort of the per-job
\* results: it holds each scored job once, scores never increase from one
\* element to the next, and results of equal score keep the order of their
\* jobs in the input.
C4_StableDescendingSort ==
  pc = "returned" =>
    /\ Len(result) = Len(matches)
    /\ {result[p].input_index : p \in DOMAIN result} = 1..Len(result)
    /\ \A p, q \in DOMAIN result :
          p < q =>
            /\ RGe(result[p].match_score, result[q].match_score)
            /\ result[p].match_score = result[q].match_score
                 => result[p].input_index < result[q].input_index

\* C4 case: two different jobs with the same score are returned.
C4_Witness ==
  /\ pc = "returned"
  /\ Len(result) = 2
  /\ result[1].job # result[2].job
  /\ result[1].match_score = result[2].match_score

\* C5: in a call with K >= 1 jobs the batch entry point is called exactly
\* once, with the K job texts in input order; the single-text entry point is
\* called once, with the candidate text; and the embedding service is called
\* once per entry-point call, never once per job.
C5_BatchedEmbedding ==
  /\ Len(batch_calls) <= 1
  /\ Len(single_calls) <= 1
  /\ \A c \in DOMAIN batch_calls :
        /\ Len(batch_calls[c]) = Len(jobs)
        /\ \A k \in DOMAIN jobs :
              batch_calls[c][k] = jobs[k].title \o <<" ">> \o jobs[k].description
  /\ \A c \in DOMAIN single_calls : single_calls[c] = CvText(cv_analysis)
  /\ Len(api_calls) = Len(single_calls) + Len(batch_calls)
  /\ \A c \in DOMAIN api_calls :
        api_calls[c].batch => Len(api_calls[c].texts) = Len(jobs)
  /\ (pc \in {"scoring", "returned"} /\ jobs # <<>>) =>
        /\ Len(batch_calls) = 1
        /\ Len(single_calls) = 1
        /\ Len(api_calls) = 2
        /\ ~api_calls[1].batch
        /\ api_calls[2].batch

\* C5 case: a call with two different jobs has returned both results.
C5_Witness ==
  /\ pc = "returned"
  /\ Len(jobs) = 2
  /\ jobs[1] # jobs[2]
  /\ Len(result) = 2
  /\ Len(batch_calls) = 1

\* C6: the insight of every result is the first entry of the insight list
\* whose company_name equals the job's company exactly, and without such an
\* entry a default named after the job's company with neutral sentiment and
\* empty lists; the lookup never makes the call fail: a scoring step fails
\* only on vectors of different lengths.
C6_InsightLookup ==
  /\ \A m \in Produced :
        LET found == {k \in DOMAIN company_insights_list :
                        company_insights_list[k].company_name = m.job.company}
        IN  /\ found = {} =>
                 /\ m.company_insights.company_name = m.job.company
                 /\ m.company_insights.reddit_sentiment = "neutral"
                 /\ m.company_insights.reddit_highlights = <<>>
                 /\ m.company_insights.recent_news = <<>>
                 /\ m.company_insights.culture_notes = <<>>
            /\ found # {} =>
                 \E k \in found :
                    /\ \A h \in found : k <= h
                    /\ m.company_insights = company_insights_list[k]
  /\ error.stage = "scoring" =>
        /\ error.kind = "ValueError"
        /\ Len(cv_embedding) # Len(job_embeddings[i])

\* C6 case: one returned result took the default (its company has no entry,
\* though an entry differing only in case exists or the list is not empty)
\* and another took the first of several entries of its company.
C6_Witness ==
  /\ pc = "returned"
  /\ company_insights_list # <<>>
  /\ \E m \in Range(result) :
        /\ \A k \in DOMAIN company_insights_list :
              company_insights_list[k].company_name # m.job.company
        /\ m.company_insights.reddit_sentiment = "neutral"
  /\ \E m \in Range(result) :
        Cardinality({k \in DOMAIN company_insights_list :
                       company_insights_list[k].company_name = m.job.company}) >= 2

\* C6 case: with an empty insight list the call returns, every result
\* carrying the default.
C6_EmptyListReturns ==
  /\ pc = "returned"
  /\ company_insights_list = <<>>
  /\ Len(result) = 2

\* C7: when the candidate embedding call or the batch embedding call fails,
\* the call fails with that error: nothing is returned, and no job is scored.
C7_EmbeddingFailurePropagates ==
  /\ error.stage \in {"embed_candidate", "embed_batch"} =>
        /\ pc = "failed"
        /\ error.kind \in EmbedFailures
        /\ result = <<>>
        /\ matches = <<>>
        /\ i = 0
  /\ pc = "returned" => error = NoError

\* C7 case: the batch call for two jobs timed out after the candidate
\* embedding had succeeded.
C7_Witness ==
  /\ pc = "failed"
  /\ error = [stage |-> "embed_batch", kind |-> "timeout"]
  /\ Len(jobs) = 2
  /\ cv_embedding # <<>>

\* C10: every result carries the label of its own final score: Strong Match
\* from 80, Good Fit from 65 to below 80, Consider from 50 to below 65, Skip
\* below 50; the scores 80, 65 and 50 get the higher label.
C10_RecommendationThresholds ==
  \A m \in Produced :
    /\ m.recommendation = "Strong Match" <=> RLe(RInt(80), m.match_score)
    /\ m.recommendation = "Good Fit" <=>
          (RLe(RInt(65), m.match_score) /\ RLt(m.match_score, RInt(80)))
    /\ m.recommendation = "Consider" <=>
          (RLe(RInt(50), m.match_score) /\ RLt(m.match_score, RInt(65)))
    /\ m.recommendation = "Skip" <=> RLt(m.match_score, RInt(50))

\* C10 case: results with the scores 80 and 50 exactly are returned.
C10_Witness ==
  /\ pc = "returned"
  /\ \E m \in Range(result) :
        m.match_score = RInt(80) /\ m.recommendation = "Strong Match"
  /\ \E m \in Range(result) :
        m.match_score = RInt(50) /\ m.recommendation = "Consider"

\* C10 case: a result with the score 65 exactly is returned.
C10_Boundary65 ==
  /\ pc = "returned"
  /\ \E m \in Range(result) :
        m.match_score = RInt(65) /\ m.recommendation = "Good Fit"

(***************************************************************************)
(* Properties of the score helpers (specification SpecScore).              *)
(***************************************************************************)
\* C8: the base score is the clamp to [0, 100] of
\*   50 * similarity + min(4 * |overlap|, 30)
\*   + (20 * |overlap| / |candidate skills|, or 0 without candidate skills)
\*   - min(|gaps|, 5),
\* the clamp coming last; the only failure is the one of the similarity on
\* vectors of different lengths, so an empty skill list divides nothing.
C8_BaseScoreFormula ==
  (s_from = "args" /\ s_pc # "args") =>
    LET similarity == _cosine_similarity(s_args.cv_embedding, s_args.job_embedding)
        found == SkillOverlap(s_args.cv_skills, s_args.job_description)
        n_overlap == Len(found.overlapping)
        n_gaps == Len(found.missing)
        n_skills == Len(s_args.cv_skills)
        coverage == IF n_skills = 0 THEN RInt(0)
                    ELSE Rat(20 * n_overlap, n_skills)
        sum == RSub(RAdd(RAdd(RMulInt(similarity.value, 50),
                              RInt(IntMin(4 * n_overlap, 30))),
                         coverage),
                    RInt(IntMin(n_gaps, 5)))
        clamped == IF RLt(sum, RInt(0)) THEN RInt(0)
                   ELSE IF RLt(RInt(100), sum) THEN RInt(100)
                   ELSE sum
    IN  IF Len(s_args.cv_embedding) = Len(s_args.job_embedding)
          THEN s_pc # "raised" /\ s_base = clamped
          ELSE s_pc = "raised"

\* C8 case: more than seven overlapping skills (the bonus is capped at 30)
\* and the sum reaches 100.
C8_Witness ==
  /\ s_from = "args"
  /\ s_pc = "base"
  /\ Len(SkillOverlap(s_args.cv_skills, s_args.job_description).overlapping) * 4 > 30
  /\ s_base = RInt(100)

\* C8 case: no candidate skills and more than five gaps at similarity 3/5:
\* 30 - 5 = 25.
C8_EmptySkillsReached ==
  /\ s_from = "args"
  /\ s_pc = "base"
  /\ s_args.cv_skills = <<>>
  /\ Len(SkillOverlap(s_args.cv_skills, s_args.job_description).missing) > 5
  /\ s_base = RInt(25)

\* C8 case: a negative sum is clamped to 0.
C8_NegativeSumReached ==
  /\ s_from = "args"
  /\ s_pc = "base"
  /\ _cosine_similarity(s_args.cv_embedding, s_args.job_embedding).value[1] < 0
  /\ Len(SkillOverlap(s_args.cv_skills, s_args.job_description).missing) > 0
  /\ s_base = RInt(0)

\* C9: the adjusted score is the clamp to [0, 100] of base + 5 (positive),
\* base - 10 (negative) or base (neutral); positive never lowers the score,
\* negative never raises it, and the score changes where the clamp does not
\* bind.
C9_SentimentAdjustment ==
  (s_from \in {"args", "base"} /\ s_pc \in {"final", "done"}) =>
    LET sentiment == s_args.company_insights.reddit_sentiment
        moved == IF sentiment = "positive" THEN RAdd(s_base, RInt(5))
                 ELSE IF sentiment = "negative" THEN RSub(s_base, RInt(10))
                 ELSE s_base
        binds == RLt(moved, RInt(0)) \/ RLt(RInt(100), moved)
    IN  /\ s_final = (IF RLt(moved, RInt(0)) THEN RInt(0)
                      ELSE IF RLt(RInt(100), moved) THEN RInt(100)
                      ELSE moved)
        /\ sentiment = "positive" =>
              /\ RGe(s_final, s_base)
              /\ ~binds => RLt(s_base, s_final)
        /\ sentiment = "negative" =>
              /\ RLe(s_final, s_base)
              /\ ~binds => RLt(s_final, s_base)
        /\ sentiment = "neutral" => s_final = s_base

\* C9 case: negative sentiment on a base score below 10 (the clamp binds).
C9_Witness ==
  /\ s_from = "base"
  /\ s_pc = "final"
  /\ s_args.company_insights.reddit_sentiment = "negative"
  /\ RLt(RInt(0), s_base)
  /\ RLt(s_base, RInt(10))
  /\ s_final = RInt(0)

\* C9 case: positive sentiment on a base score above 95 (the clamp binds).
C9_UpperClampReached ==
  /\ s_from = "base"
  /\ s_pc = "final"
  /\ s_args.company_insights.reddit_sentiment = "positive"
  /\ RLt(RInt(95), s_base)
  /\ RLt(s_base, RInt(100))
  /\ s_final = RInt(100)

(***************************************************************************)
(* Direct calls of the other helpers of SmartMatcher, as the unit tests    *)
(* make them: h_op names the helper, h_args holds its arguments, h_out     *)
(* what it returned.                                                       *)
(***************************************************************************)
\* candidate skills: Java, C++, Go, DOCKER, Python, python, Rust
SkillPool ==
  { <<"J","a","v","a">>,
    <<"C","+","+">>,
    <<"G","o">>,
    <<"D","O","C","K","E","R">>,
    <<"P","y","t","h","o","n">>,
    <<"p","y","t","h","o","n">>,
    <<"R","u","s","t">> }

\* job descriptions:
\*   "We use JavaScript"
\*   "We use Java and Spring"
\*   "We use C++ and Java"
\*   "c++x go-lang let_go"
\*   "Experience with python and docker required"
\*   ""
\*   "great interest in google"
DescriptionPool ==
  { <<"W","e"," ","u","s","e"," ","J","a","v","a","S","c","r","i","p","t">>,
    <<"W","e"," ","u","s","e"," ","J","a","v","a"," ","a","n","d"," ","S","p","r","i","n","g">>,
    <<"W","e"," ","u","s","e"," ","C","+","+"," ","a","n","d"," ","J","a","v","a">>,
    <<"c","+","+","x"," ","g","o","-","l","a","n","g"," ","l","e","t","_","g","o">>,
    <<"E","x","p","e","r","i","e","n","c","e"," ","w","i","t","h"," ","p","y","t","h","o","n"," ","a","n","d"," ","d","o","c","k","e","r"," ","r","e","q","u","i","r","e","d">>,
    <<>>,
    <<"g","r","e","a","t"," ","i","n","t","e","r","e","s","t"," ","i","n"," ","g","o","o","g","l","e">> }

MaxSkills == 2

\* vectors of the lengths 0 to 3, with and without magnitude
HelperVectors ==
  { <<>>, <<0>>, <<1>>, <<0, 0>>, <<1, 0>>, <<0, 1>>, <<3, 4>>, <<-3, -4>>,
    <<0, 0, 0>>, <<1, 2, 2>> }

CosineArgs == [vec1 : HelperVectors, vec2 : HelperVectors]

\* Texts to embed.  Short ones with runs of blanks, tabs and line ends at
\* the start, inside and at the end; and long ones:
\*   LongPlain    8005 times "x"
\*   LongSpaced   "a  ba  ba  ... b", 16000 characters, 12000 once collapsed,
\*                with a space as the 8000th character of the collapsed text
\*   ExactFit     8000 times "x" between a blank and a line end
\*   OneOver      8001 characters once collapsed, a tab inside
LongPlain == [k \in 1..(MaxEmbedChars + 5) |-> "x"]

LongSpaced ==
  [k \in 1..(2 * MaxEmbedChars) |->
     IF k % 4 = 1 THEN "a" ELSE IF k % 4 = 0 THEN "b" ELSE " "]

ExactFit ==
  [k \in 1..(MaxEmbedChars + 2) |->
     IF k = 1 THEN " " ELSE IF k = MaxEmbedChars + 2 THEN "\n" ELSE "x"]

OneOver ==
  [k \in 1..(MaxEmbedChars + 2) |-> IF k \in {5, 6} THEN "\t" ELSE "x"]

ShortTexts ==
  { <<>>,
    <<" "," ">>,
    <<"a","b">>,
    <<" ","a","\t","\t","b"," ","\n"," ","c"," ">>,
    <<"T","e","x","t"," "," "," ","w","i","t","h"," "," "," "," ","l","o","t","s"," "," "," "," ","o","f"," "," "," "," ","s","p","a","c","e","s">>,
    <<"\n"," ","D","e","v"," "," ","C","+","+","\t","J","a","v","a"," ","\r","\n">> }

EmbedTexts == ShortTexts \cup {LongPlain, LongSpaced, ExactFit, OneOver}

MaxTexts == 2

EmbeddingArgs == [text : EmbedTexts]

\* the texts of a batch: two short ones and two long ones
BatchTexts ==
  { <<" ","a","\t","\t","b"," ","\n"," ","c"," ">>,
    <<"a","b">>,
    LongSpaced,
    OneOver }

BatchArgs == [texts : SeqsUpTo(BatchTexts, MaxTexts) \ {<<>>}]

OverlapArgs ==
  [cv_skills : SeqsUpTo(SkillPool, MaxSkills), job_description : DescriptionPool]

\* the lists handed to _generate_reasoning: from none up to one more than
\* the sentence names
MaxOverlapShown == 6
MaxGapsShown == 4

OverlapLists == { Prefix(<<"Python", "Go", "Java", "Rust", "Docker", "AWS", "SQL", "Git">>, n) : n \in 0..MaxOverlapShown }

GapLists == { Prefix(<<"kubernetes", "react", "angular", "kafka", "redis", "azure">>, n) : n \in 0..MaxGapsShown }

\* scores on both sides of the two tier thresholds
ReasoningScores ==
  { Rat(k, GridDen) :
      k \in {0, 65 * GridDen - 1, 65 * GridDen, 80 * GridDen - 1, 80 * GridDen, 100 * GridDen} }

ReasoningArgs ==
  [score : ReasoningScores,
   skill_overlap : OverlapLists,
   skill_gaps : GapLists,
   company_insights : {CompanyInsights("Acme", sentiment) : sentiment \in Sentiments}]

HelperInit ==
  /\ MatcherIdle
  /\ ScoreIdle
  /\ SearchIdle
  /\ NewsIdle
  /\ BuildIdle
  /\ SourceIdle
  /\ RunIdle
  /\ ApiIdle
  /\ skill_overlap_memo = SkillOverlapMemo({})
  /\ h_pc = "call"
  /\ h_out = <<>>
  /\ \/ /\ h_op = "_calculate_skill_overlap"
        /\ h_args \in OverlapArgs
     \/ /\ h_op = "_cosine_similarity"
        /\ h_args \in CosineArgs
     \/ /\ h_op = "_create_embedding"
        /\ h_args \in EmbeddingArgs
     \/ /\ h_op = "_create_embeddings_batch"
        /\ h_args \in BatchArgs
     \/ /\ h_op = "_generate_reasoning"
        /\ h_args \in ReasoningArgs

\* overlapping, missing = self._calculate_skill_overlap(cv_skills, job_description)
CalculateSkillOverlap ==
  /\ h_pc = "call"
  /\ h_op = "_calculate_skill_overlap"
  /\ h_out' = _calculate_skill_overlap(h_args.cv_skills, h_args.job_description)
  /\ h_pc' = "done"
  /\ UNCHANGED <<h_op, h_args>>
  /\ UNCHANGED <<matcherVars, scoreVars, skill_overlap_memo, searchVars, newsVars, buildVars, sourceVars, runVars, apiVars>>

\* similarity = self._cosine_similarity(vec1, vec2)
CosineSimilarity ==
  /\ h_pc = "call"
  /\ h_op = "_cosine_similarity"
  /\ h_out' = _cosine_similarity(h_args.vec1, h_args.vec2)
  /\ h_pc' = "done"
  /\ UNCHANGED <<h_op, h_args>>
  /\ UNCHANGED <<matcherVars, scoreVars, skill_overlap_memo, searchVars, newsVars, buildVars, sourceVars, runVars, apiVars>>

\* self._create_embedding(text): h_out.sent is the input of
\* client.embeddings.create.  What the service answers is part of Spec.
CreateEmbedding ==
  /\ h_pc = "call"
  /\ h_op = "_create_embedding"
  /\ h_out' = [batch |-> FALSE, sent |-> <<CleanText(h_args.text)>>]
  /\ h_pc' = "done"
  /\ UNCHANGED <<h_op, h_args>>
  /\ UNCHANGED <<matcherVars, scoreVars, skill_overlap_memo, searchVars, newsVars, buildVars, sourceVars, runVars, apiVars>>

\* self._create_embeddings_batch(texts)
CreateEmbeddingsBatch ==
  /\ h_pc = "call"
  /\ h_op = "_create_embeddings_batch"
  /\ h_out' = [batch |-> TRUE, sent |-> CleanedTexts(h_args.texts)]
  /\ h_pc' = "done"
  /\ UNCHANGED <<h_op, h_args>>
  /\ UNCHANGED <<matcherVars, scoreVars, skill_overlap_memo, searchVars, newsVars, buildVars, sourceVars, runVars, apiVars>>

\* reasoning = self._generate_reasoning(score, skill_overlap, skill_gaps, company_insights)
GenerateReasoning ==
  /\ h_pc = "call"
  /\ h_op = "_generate_reasoning"
  /\ h_out' = _generate_reasoning(h_args.score, h_args.skill_overlap,
                                   h_args.skill_gaps, h_args.company_insights)
  /\ h_pc' = "done"
  /\ UNCHANGED <<h_op, h_args>>
  /\ UNCHANGED <<matcherVars, scoreVars, skill_overlap_memo, searchVars, newsVars, buildVars, sourceVars, runVars, apiVars>>

HelperNext ==
  \/ CalculateSkillOverlap
  \/ CosineSimilarity
  \/ CreateEmbedding
  \/ CreateEmbeddingsBatch
  \/ GenerateReasoning

SpecHelpers == HelperInit /\ [][HelperNext]_vars

(***************************************************************************)
(* Properties of the helpers (specification SpecHelpers).                  *)
(***************************************************************************)
\* pat stands in text at index j with no letter, digit or underscore right
\* before it and none right after it
StandsAlone(pat, text, j) ==
  /\ MatchAt(pat, text, j)
  /\ (j = 1 \/ ~IsWordChar(text[j - 1]))
  /\ (j + Len(pat) > Len(text) \/ ~IsWordChar(text[j + Len(pat)]))

\* C11: a candidate skill is in the overlap list exactly when it occurs in
\* the job text, compared case-insensitively, with no letter, digit or
\* underscore right before or right after it; the overlap list holds these
\* skills in the order of the candidate skills.  The pattern \b...\b asks
\* for a word character on one side of each end, so a skill that ends in
\* "+" is not found before a space, and this fails.
C11_WholeWordOverlap ==
  (h_op = "_calculate_skill_overlap" /\ h_pc = "done") =>
    LET text == Lower(h_args.job_description)
        Occurs(skill) ==
          \E j \in Starts(Lower(skill), text) : StandsAlone(Lower(skill), text, j)
    IN  h_out.overlapping = SelectSeq(h_args.cv_skills, Occurs)

\* C11 case: the skill C++ and the text "We use C++ and Java": no overlap.
C11_Witness ==
  /\ h_op = "_calculate_skill_overlap"
  /\ h_pc = "done"
  /\ h_args.cv_skills = << <<"C","+","+">> >>
  /\ h_args.job_description = <<"W","e"," ","u","s","e"," ","C","+","+"," ","a","n","d"," ","J","a","v","a">>
  /\ h_out.overlapping = <<>>

\* C11 case: the skill C++ and the text "c++x go-lang let_go": C++ is found
\* although a letter follows it.
C11_FoundBeforeLetter ==
  /\ h_op = "_calculate_skill_overlap"
  /\ h_pc = "done"
  /\ h_args.cv_skills = << <<"C","+","+">> >>
  /\ h_args.job_description = <<"c","+","+","x"," ","g","o","-","l","a","n","g"," ","l","e","t","_","g","o">>
  /\ h_out.overlapping = << <<"C","+","+">> >>

\* C12: a term of the vocabulary is in the gap list exactly when it occurs
\* in the job text as a substring, compared case-insensitively, and is not an
\* element of the candidate skills under exact string equality; without
\* candidate skills the overlap is empty and every term found in the text is
\* a gap.
C12_GapList ==
  (h_op = "_calculate_skill_overlap" /\ h_pc = "done") =>
    LET text == Lower(h_args.job_description)
        InText(term) ==
          \E a \in 1..(Len(text) - Len(term) + 1) :
             SubSeq(text, a, a + Len(term) - 1) = Lower(term)
        Gap(term) == InText(term) /\ term \notin Range(h_args.cv_skills)
    IN  /\ \A t \in Range(common_tech_skills) :
              t \in Range(h_out.missing) <=> Gap(t)
        /\ Range(h_out.missing) \subseteq Range(common_tech_skills)
        /\ h_args.cv_skills = <<>> =>
              /\ h_out.overlapping = <<>>
              /\ Range(h_out.missing) =
                   {t \in Range(common_tech_skills) : InText(t)}

\* C12 case: no candidate skills and the text "great interest in google":
\* Go and REST are gaps, found inside "google" and "interest".
C12_Witness ==
  /\ h_op = "_calculate_skill_overlap"
  /\ h_pc = "done"
  /\ h_args.cv_skills = <<>>
  /\ h_args.job_description = <<"g","r","e","a","t"," ","i","n","t","e","r","e","s","t"," ","i","n"," ","g","o","o","g","l","e">>
  /\ h_out.overlapping = <<>>
  /\ h_out.missing = << <<"G","o">>, <<"R","E","S","T">> >>

\* C12 case: the candidate skill "python" overlaps with the text, and the
\* vocabulary term "Python" is a gap all the same.
C12_OtherCaseIsGap ==
  /\ h_op = "_calculate_skill_overlap"
  /\ h_pc = "done"
  /\ h_args.cv_skills = << <<"p","y","t","h","o","n">> >>
  /\ h_out.overlapping = << <<"p","y","t","h","o","n">> >>
  /\ <<"P","y","t","h","o","n">> \in Range(h_out.missing)

\* the sum of the squares of the components is 0
ZeroMagnitude(v) == \A k \in DOMAIN v : v[k] = 0

\* C13 as stated: whenever one of the two vectors has zero magnitude the
\* similarity is 0.0 and nothing is raised.  This fails for vectors of
\* different lengths: np.dot raises before the magnitudes are looked at.
C13_ZeroMagnitudeAnyLength ==
  (h_op = "_cosine_similarity" /\ h_pc = "done"
     /\ (ZeroMagnitude(h_args.vec1) \/ ZeroMagnitude(h_args.vec2))) =>
    h_out = [err |-> "none", value |-> RInt(0)]

\* C13, amended: whenever the two vectors have the same length and one of
\* them (or both) has zero magnitude, the similarity is exactly 0.0, nothing
\* is raised and the value is a number; with different lengths the call
\* raises ValueError, zero magnitude or not.
C13_ZeroMagnitudeGivesZero ==
  (h_op = "_cosine_similarity" /\ h_pc = "done"
     /\ (ZeroMagnitude(h_args.vec1) \/ ZeroMagnitude(h_args.vec2))) =>
    IF Len(h_args.vec1) = Len(h_args.vec2)
      THEN h_out = [err |-> "none", value |-> RInt(0)]
      ELSE h_out.err = "ValueError"

\* C13 case: both vectors are the zero vector of length 3.
C13_Witness ==
  /\ h_op = "_cosine_similarity"
  /\ h_pc = "done"
  /\ h_args.vec1 = <<0, 0, 0>>
  /\ h_args.vec2 = <<0, 0, 0>>
  /\ h_out = [err |-> "none", value |-> RInt(0)]

\* C13 case: a zero vector of length 2 and a vector of length 1: ValueError.
C13_ZeroVectorRaises ==
  /\ h_op = "_cosine_similarity"
  /\ h_pc = "done"
  /\ h_args.vec1 = <<0, 0>>
  /\ h_args.vec2 = <<1>>
  /\ h_out.err = "ValueError"

\* C15: on two vectors of different lengths the similarity call fails with
\* an error; it returns a value only for vectors of the same length.
C15_LengthMismatchFails ==
  (h_op = "_cosine_similarity" /\ h_pc = "done") =>
    (h_out.err = "ValueError" <=> Len(h_args.vec1) # Len(h_args.vec2))

\* C15 case: vectors of the lengths 2 and 3 whose common prefix has a
\* similarity of its own.
C15_Witness ==
  /\ h_op = "_cosine_similarity"
  /\ h_pc = "done"
  /\ h_args.vec1 = <<1, 0>>
  /\ h_args.vec2 = <<1, 2, 2>>
  /\ h_out.err = "ValueError"

\* sent is text with every run of white space collapsed to one space, white
\* space at both ends removed, and then cut to MaxEmbedChars characters.
\* Stated on the places of the characters that are not white space: they
\* are the same characters in the same order, the first at place 1, each
\* next one right after the one before it, or one space later where white
\* space stood between them in text; as many of them as fit.
Preprocessed(text, sent) ==
  LET places == SelectSeq([k \in DOMAIN text |-> k], LAMBDA k : ~IsSpace(text[k]))
      sent_places == SelectSeq([k \in DOMAIN sent |-> k], LAMBDA k : sent[k] # " ")
      NewWord(j) == j > 1 /\ places[j] > places[j - 1] + 1
      collapsed_len == Len(places) + Cardinality({j \in DOMAIN places : NewWord(j)})
      Place(j) == IF j = 1 THEN 1
                  ELSE sent_places[j - 1] + (IF NewWord(j) THEN 2 ELSE 1)
  IN  /\ Len(sent) = IntMin(collapsed_len, MaxEmbedChars)
      /\ Len(sent_places) <= Len(places)
      /\ \A j \in DOMAIN sent_places :
            /\ sent_places[j] = Place(j)
            /\ sent[sent_places[j]] = text[places[j]]
      /\ Len(sent_places) < Len(places) => Place(Len(sent_places) + 1) > Len(sent)

\* C14: every string sent to the embedding service, by the single-text and
\* by the batch entry point, is the input with white-space runs collapsed to
\* one space and the ends stripped, then cut to its first 8000 characters;
\* it is never longer than 8000; the batch sends one string per input, the
\* k-th being the preprocessed k-th input.
C14_TextPreprocessing ==
  /\ (h_op = "_create_embedding" /\ h_pc = "done") =>
        /\ Len(h_out.sent) = 1
        /\ Len(h_out.sent[1]) <= 8000
        /\ Preprocessed(h_args.text, h_out.sent[1])
  /\ (h_op = "_create_embeddings_batch" /\ h_pc = "done") =>
        /\ Len(h_out.sent) = Len(h_args.texts)
        /\ \A k \in DOMAIN h_args.texts :
              /\ Len(h_out.sent[k]) <= 8000
              /\ Preprocessed(h_args.texts[k], h_out.sent[k])

\* C14 case: a batch of a short text with tabs and line ends and the long
\* text "a  ba  ba ...": the second string sent has 8000 characters and
\* ends with the space that followed the last word that fits.
C14_Witness ==
  /\ h_op = "_create_embeddings_batch"
  /\ h_pc = "done"
  /\ h_args.texts = << <<" ","a","\t","\t","b"," ","\n"," ","c"," ">>, LongSpaced >>
  /\ h_out.sent[1] = <<"a"," ","b"," ","c">>
  /\ Len(h_out.sent[2]) = 8000
  /\ SubSeq(h_out.sent[2], 7996, 8000) = <<"a", " ", "b", "a", " ">>

\* C14 case: the single-text call on a text of exactly 8000 characters once
\* stripped: nothing is cut.
C14_ExactFitReached ==
  /\ h_op = "_create_embedding"
  /\ h_pc = "done"
  /\ h_args.text = ExactFit
  /\ h_out.sent = << [k \in 1..8000 |-> "x"] >>


(***************************************************************************)
(* C16: the reasoning list                                                 *)
(***************************************************************************)

ReasoningDone == h_pc = "done" /\ h_op = "_generate_reasoning"

\* 1 when the condition holds, else 0
Count(cond) == IF cond THEN 1 ELSE 0

TierWording(score) ==
  IF RLt(score, RInt(65)) THEN "Moderate fit with"
  ELSE IF RLt(score, RInt(80)) THEN "Good fit with"
  ELSE "Excellent match with"

\* sentence names exactly the first min(n, Len(list)) entries of list
NamesFirst(sentence, list, n) ==
  /\ Len(sentence.items) = IntMin(n, Len(list))
  /\ Len(sentence.items) <= n
  /\ \A k \in 1..Len(sentence.items) : sentence.items[k] = list[k]

\* C16: the reasoning list is non-empty and ordered: exactly one tier
\* sentence (its wording chosen by score >= 80, 65 <= score < 80, score < 65),
\* then an overlap sentence iff the overlap list is non-empty, naming at most
\* its first 5 skills, then a gap sentence iff the gap list is non-empty,
\* naming at most its first 3 terms, then a sentiment sentence iff the
\* sentiment is positive or negative.
C16_ReasoningOrder ==
  ReasoningDone =>
    LET has_overlap == h_args.skill_overlap # <<>>
        has_gaps == h_args.skill_gaps # <<>>
        sentiment == h_args.company_insights.reddit_sentiment
        has_sentiment == sentiment \in {"positive", "negative"}
        at_overlap == 2
        at_gaps == 2 + Count(has_overlap)
        at_sentiment == 2 + Count(has_overlap) + Count(has_gaps)
    IN  /\ Len(h_out) = 1 + Count(has_overlap) + Count(has_gaps) + Count(has_sentiment)
        /\ Len(h_out) >= 1
        /\ h_out[1].wording = TierWording(h_args.score)
        /\ h_out[1].score = h_args.score
        /\ \A k \in 2..Len(h_out) :
             h_out[k].wording \notin {"Excellent match with", "Good fit with", "Moderate fit with"}
        /\ has_overlap =>
             /\ h_out[at_overlap].wording = "Strong skill alignment:"
             /\ NamesFirst(h_out[at_overlap], h_args.skill_overlap, 5)
        /\ has_gaps =>
             /\ h_out[at_gaps].wording = "Missing skills:"
             /\ NamesFirst(h_out[at_gaps], h_args.skill_gaps, 3)
        /\ has_sentiment =>
             h_out[at_sentiment].wording =
               IF sentiment = "positive" THEN "Company has positive reviews and culture"
               ELSE "Company has some negative reviews"
        /\ ~has_overlap => \A k \in 1..Len(h_out) : h_out[k].wording # "Strong skill alignment:"
        /\ ~has_gaps => \A k \in 1..Len(h_out) : h_out[k].wording # "Missing skills:"
        /\ ~has_sentiment =>
             \A k \in 1..Len(h_out) :
               h_out[k].wording \notin {"Company has positive reviews and culture",
                                        "Company has some negative reviews"}

\* all four sentences, from lists longer than the sentences name
C16_Witness ==
  /\ ReasoningDone
  /\ Len(h_args.skill_overlap) > 5
  /\ Len(h_args.skill_gaps) > 3
  /\ h_args.score = RInt(65)
  /\ Len(h_out) = 4
  /\ Len(h_out[2].items) = 5
  /\ Len(h_out[3].items) = 3
  /\ h_out[4].wording = "Company has some negative reviews"

\* the tier sentence alone: no overlap, no gap, neutral sentiment
C16_TierSentenceAlone ==
  /\ ReasoningDone
  /\ Len(h_out) = 1
  /\ h_out[1].wording = "Good fit with"


(***************************************************************************)
(* JobScraper.search (src/agents/job_scraper.py): the expanded queries are *)
(* tried one after the other, each on every enabled source; the jobs of a  *)
(* source are deduplicated and the sources share num_jobs evenly.          *)
(*                                                                         *)
(* What a job board answers is a list of postings (title, company, url);   *)
(* the source turns them into Job records.  Titles and companies are       *)
(* sequences of characters here, since they are compared after lower().    *)
(***************************************************************************)

MaxQueries == 2

\* the order in which search() asks the sources
Backends == <<"jsearch", "brave_search", "firecrawl">>

BackendSet == {Backends[k] : k \in DOMAIN Backends}

SourceFlags == [BackendSet -> BOOLEAN]

\* sources = the enabled ones, in the order of the loop body
ActiveBackends(use) == SelectSeq(Backends, LAMBDA b : use[b])

\* active_sources = sum([self.use_jsearch, self.use_brave_search, self.use_firecrawl])
active_sources(use) == Len(ActiveBackends(use))

\* deviation: the labels of all three sources are accepted
JobSourcesOfEveryBackend == {"linkedin", "indeed", "direct", "jsearch", "brave_search", "firecrawl"}

\* Job.source: Literal["linkedin", "indeed", "direct", "jsearch"]
JobSources == {"linkedin", "indeed", "direct", "jsearch"}

Posting(title, company, url) == [title |-> title, company |-> company, url |-> url]

\* Job(title=..., company=..., url=..., source=...): pydantic rejects a
\* source outside the Literal
JobFromSource(posting, source) ==
  [err |-> IF source \in JobSources THEN "none" ELSE "ValidationError",
   job |-> [title |-> posting.title, company |-> posting.company,
            url |-> posting.url, source |-> source]]

\* "Dev" at "Acme", u1
PostA == Posting(<<"D","e","v">>, <<"A","c","m","e">>, "u1")
\* "dev" at "ACME", u2: PostA but for the case and the URL
PostA2 == Posting(<<"d","e","v">>, <<"A","C","M","E">>, "u2")
\* "Ops" at "Acme", u1: the URL of PostA
PostB == Posting(<<"O","p","s">>, <<"A","c","m","e">>, "u1")
\* two postings without URL
PostC == Posting(<<"Q","A">>, <<"B","e","t","a">>, "")
PostD == Posting(<<"P","M">>, <<"B","e","t","a">>, "")

PostingPool == {PostA, PostA2, PostB, PostC, PostD}

\* what a job board may answer to one query
RawResponses == { <<>>, <<PostA, PostA2>>, <<PostB, PostC, PostD>> }

NumJobsChoices == {0, 1, 2, 20}

QueryLists == { [k \in 1..n |-> k] : n \in 0..MaxQueries }

\* _convert_to_jobs(jobs_data, num_jobs): every job is labelled "jsearch"
_convert_to_jobs(jobs_data, limit) ==
  LET kept == Prefix(jobs_data, limit)
      built == [k \in DOMAIN kept |-> JobFromSource(kept[k], "jsearch")]
  IN  IF \E k \in DOMAIN built : built[k].err # "none"
        THEN [err |-> "ValidationError", jobs |-> <<>>]
        ELSE [err |-> "none", jobs |-> [k \in DOMAIN built |-> built[k].job]]

\* BraveSearchAgent._parse_search_results: a result whose Job cannot be
\* built is skipped
_parse_search_results(results) ==
  LET built == [k \in DOMAIN results |-> JobFromSource(results[k], "brave_search")]
      valid == SelectSeq(built, LAMBDA b : b.err = "none")
  IN  [k \in DOMAIN valid |-> valid[k].job]

RECURSIVE FirecrawlDeduplicateFrom(_, _, _, _)
FirecrawlDeduplicateFrom(list, k, seen, unique_jobs) ==
  IF k > Len(list) THEN unique_jobs
  ELSE LET job_id == <<Lower(list[k].title), Lower(list[k].company)>>
       IN  IF job_id \in seen
             THEN FirecrawlDeduplicateFrom(list, k + 1, seen, unique_jobs)
             ELSE FirecrawlDeduplicateFrom(list, k + 1, seen \cup {job_id},
                                           Append(unique_jobs, list[k]))

\* FireCrawlJobScraper.search: the jobs are built in one try block, any
\* exception gives []; the titles of the pool have no outer blanks, so
\* strip() changes nothing
FirecrawlSearch(results) ==
  LET built == [k \in DOMAIN results |-> JobFromSource(results[k], "firecrawl")]
  IN  IF \E k \in DOMAIN built : built[k].err # "none"
        THEN <<>>
        ELSE FirecrawlDeduplicateFrom([k \in DOMAIN built |-> built[k].job], 1, {}, <<>>)

\* One call of a source.  api_failed: the request failed (status other than
\* 200, timeout, connection error).  _search_jsearch_api raises; the two
\* other sources catch every exception themselves and return [].
CallBackend(backend, api_failed, results, limit) ==
  IF backend = "jsearch"
    THEN IF api_failed THEN [err |-> "Exception", jobs |-> <<>>]
         ELSE _convert_to_jobs(results, limit)
  ELSE IF backend = "brave_search"
    THEN [err |-> "none",
          jobs |-> IF api_failed THEN <<>> ELSE _parse_search_results(results)]
  ELSE [err |-> "none",
        jobs |-> IF api_failed THEN <<>> ELSE FirecrawlSearch(results)]

RECURSIVE DeduplicateFrom(_, _, _, _, _)
DeduplicateFrom(jobs_list, k, seen_urls, seen_jobs, unique) ==
  IF k > Len(jobs_list) THEN unique
  ELSE LET job == jobs_list[k]
           job_id == <<Lower(job.title), Lower(job.company)>>
       IN  IF job.url # "" /\ job.url \in seen_urls
             THEN DeduplicateFrom(jobs_list, k + 1, seen_urls, seen_jobs, unique)
           ELSE IF job_id \in seen_jobs
             THEN DeduplicateFrom(jobs_list, k + 1, seen_urls, seen_jobs, unique)
           ELSE DeduplicateFrom(jobs_list, k + 1,
                                IF job.url # "" THEN seen_urls \cup {job.url} ELSE seen_urls,
                                seen_jobs \cup {job_id}, Append(unique, job))

\* def deduplicate_jobs(jobs_list)
deduplicate_jobs(jobs_list) == DeduplicateFrom(jobs_list, 1, {}, {}, <<>>)

\* jobs_per_source = num_jobs // active_sources
jobs_per_source(n, use) == n \div active_sources(use)

\* jobs_per_query = max(5, jobs_per_source // len(expanded_queries))
jobs_per_query(n, use, queries) ==
  LET share == jobs_per_source(n, use) \div Len(queries)
  IN  IF share > 5 THEN share ELSE 5

\* deviation: every source gives all its unique jobs
DistributeJobsWithoutShare(collected, n, use) ==
  LET unique_of == [b \in BackendSet |-> deduplicate_jobs(collected[b])]
      limit_of == [b \in BackendSet |-> IF use[b] THEN Len(unique_of[b]) ELSE 0]
      taken == Prefix(unique_of["jsearch"], limit_of["jsearch"])
                 \o Prefix(unique_of["brave_search"], limit_of["brave_search"])
                 \o Prefix(unique_of["firecrawl"], limit_of["firecrawl"])
  IN  Prefix(taken, n)

\* Step 4: each source gives at most jobs_per_source of its unique jobs,
\* JSearch first; both branches of the code take the same slices.  The
\* result is final_jobs[:num_jobs].
DistributeJobs(collected, n, use) ==
  LET unique_of == [b \in BackendSet |-> deduplicate_jobs(collected[b])]
      limit_of == [b \in BackendSet |->
                     IF use[b] THEN IntMin(Len(unique_of[b]), jobs_per_source(n, use)) ELSE 0]
      taken == Prefix(unique_of["jsearch"], limit_of["jsearch"])
                 \o Prefix(unique_of["brave_search"], limit_of["brave_search"])
                 \o Prefix(unique_of["firecrawl"], limit_of["firecrawl"])
  IN  Prefix(taken, n)

\* the number of backend calls of a complete loop
TotalCalls == Len(expanded_queries) * active_sources(use_sources)

\* the query and the source of the call at call_index
QueryAt(position) == ((position - 1) \div active_sources(use_sources)) + 1
BackendAt(position) == ActiveBackends(use_sources)[((position - 1) % active_sources(use_sources)) + 1]

SearchInit ==
  /\ MatcherIdle
  /\ ScoreIdle
  /\ HelperIdle
  /\ NewsIdle
  /\ BuildIdle
  /\ SourceIdle
  /\ RunIdle
  /\ ApiIdle
  /\ skill_overlap_memo = SkillOverlapMemo({})
  /\ search_pc = "start"
  /\ use_sources \in SourceFlags
  /\ num_jobs \in NumJobsChoices
  /\ expanded_queries = <<>>
  /\ call_index = 0
  /\ all_jobs = [b \in BackendSet |-> <<>>]
  /\ search_calls = <<>>
  /\ final_jobs = <<>>
  /\ search_error = "none"

\* expanded_queries = self._expand_job_query(job_title, experience_level):
\* the list the language model wrote, or [job_title] when that failed
ExpandJobQuery ==
  /\ search_pc = "start"
  /\ expanded_queries' \in QueryLists
  /\ call_index' = 1
  /\ search_pc' = "expanded"
  /\ UNCHANGED <<use_sources, num_jobs, all_jobs, search_calls, final_jobs, search_error>>
  /\ UNCHANGED <<matcherVars, scoreVars, skill_overlap_memo, helperVars, newsVars, buildVars, sourceVars, runVars, apiVars>>

\* if active_sources == 0: return []
ReturnNoSources ==
  /\ search_pc = "expanded"
  /\ active_sources(use_sources) = 0
  /\ final_jobs' = <<>>
  /\ search_pc' = "done"
  /\ UNCHANGED <<use_sources, num_jobs, expanded_queries, call_index, all_jobs, search_calls, search_error>>
  /\ UNCHANGED <<matcherVars, scoreVars, skill_overlap_memo, helperVars, newsVars, buildVars, sourceVars, runVars, apiVars>>

\* jobs_per_source // len(expanded_queries) with an empty list of queries
JobsPerQueryFails ==
  /\ search_pc = "expanded"
  /\ active_sources(use_sources) > 0
  /\ Len(expanded_queries) = 0
  /\ search_error' = "ZeroDivisionError"
  /\ search_pc' = "done"
  /\ UNCHANGED <<use_sources, num_jobs, expanded_queries, call_index, all_jobs, search_calls, final_jobs>>
  /\ UNCHANGED <<matcherVars, scoreVars, skill_overlap_memo, helperVars, newsVars, buildVars, sourceVars, runVars, apiVars>>

InLoop ==
  /\ search_pc = "expanded"
  /\ active_sources(use_sources) > 0
  /\ Len(expanded_queries) > 0
  /\ call_index <= TotalCalls

\* one "if self.use_...: try: ... extend(...)" of the loop body, the
\* request answered
SearchBackend ==
  /\ InLoop
  /\ \E results \in RawResponses :
       \E ret \in {CallBackend(BackendAt(call_index), FALSE, results,
                               jobs_per_query(num_jobs, use_sources, expanded_queries))} :
         /\ all_jobs' = IF ret.err = "none"
                          THEN [all_jobs EXCEPT ![BackendAt(call_index)] = @ \o ret.jobs]
                          ELSE all_jobs
         /\ search_calls' = Append(search_calls,
                                   [query |-> QueryAt(call_index),
                                    backend |-> BackendAt(call_index),
                                    failed |-> ret.err # "none", jobs |-> ret.jobs])
  /\ call_index' = call_index + 1
  /\ UNCHANGED <<search_pc, use_sources, num_jobs, expanded_queries, final_jobs, search_error>>
  /\ UNCHANGED <<matcherVars, scoreVars, skill_overlap_memo, helperVars, newsVars, buildVars, sourceVars, runVars, apiVars>>

\* deviation: search() has no try/except around the call of a source
SearchBackendFailsAndRaises ==
  /\ InLoop
  /\ \E ret \in {CallBackend(BackendAt(call_index), TRUE, <<>>,
                             jobs_per_query(num_jobs, use_sources, expanded_queries))} :
       /\ search_calls' = Append(search_calls,
                                 [query |-> QueryAt(call_index),
                                  backend |-> BackendAt(call_index),
                                  failed |-> TRUE, jobs |-> <<>>])
       /\ search_error' = ret.err
       /\ search_pc' = IF ret.err = "none" THEN search_pc ELSE "done"
  /\ call_index' = call_index + 1
  /\ UNCHANGED <<use_sources, num_jobs, expanded_queries, all_jobs, final_jobs>>
  /\ UNCHANGED <<matcherVars, scoreVars, skill_overlap_memo, helperVars, newsVars, buildVars, sourceVars, runVars, apiVars>>

\* the same, the request failed: "except Exception as e: print(...)" for
\* JSearch, an empty list from the two other sources
SearchBackendFails ==
  /\ InLoop
  /\ \E ret \in {CallBackend(BackendAt(call_index), TRUE, <<>>,
                             jobs_per_query(num_jobs, use_sources, expanded_queries))} :
       /\ all_jobs' = IF ret.err = "none"
                        THEN [all_jobs EXCEPT ![BackendAt(call_index)] = @ \o ret.jobs]
                        ELSE all_jobs
       /\ search_calls' = Append(search_calls,
                                 [query |-> QueryAt(call_index),
                                  backend |-> BackendAt(call_index),
                                  failed |-> TRUE, jobs |-> <<>>])
  /\ call_index' = call_index + 1
  /\ UNCHANGED <<search_pc, use_sources, num_jobs, expanded_queries, final_jobs, search_error>>
  /\ UNCHANGED <<matcherVars, scoreVars, skill_overlap_memo, helperVars, newsVars, buildVars, sourceVars, runVars, apiVars>>

\* Steps 3 and 4 and the return
DeduplicateAndReturn ==
  /\ search_pc = "expanded"
  /\ active_sources(use_sources) > 0
  /\ Len(expanded_queries) > 0
  /\ call_index > TotalCalls
  /\ final_jobs' = DistributeJobs(all_jobs, num_jobs, use_sources)
  /\ search_pc' = "done"
  /\ UNCHANGED <<use_sources, num_jobs, expanded_queries, call_index, all_jobs, search_calls, search_error>>
  /\ UNCHANGED <<matcherVars, scoreVars, skill_overlap_memo, helperVars, newsVars, buildVars, sourceVars, runVars, apiVars>>

SearchNext ==
  \/ ExpandJobQuery
  \/ ReturnNoSources
  \/ JobsPerQueryFails
  \/ SearchBackend
  \/ SearchBackendFails
  \/ DeduplicateAndReturn

SpecSearch == SearchInit /\ [][SearchNext]_vars

(***************************************************************************)
(* C17, C18: the search survives its sources and returns no duplicates     *)
(***************************************************************************)

SearchDone == search_pc = "done"

SomeBackendFailed == \E k \in DOMAIN search_calls : search_calls[k].failed

SameUrl(a, b) == a.url # "" /\ a.url = b.url

SameTitleAndCompany(a, b) ==
  /\ Lower(a.title) = Lower(b.title)
  /\ Lower(a.company) = Lower(b.company)

\* the share of a source is large enough for every posting there is
NothingCut == num_jobs \div active_sources(use_sources) >= Cardinality(PostingPool)

\* C17: when a source failed on a query, search still returns a list and
\* raises nothing, every query has been tried on every enabled source, and
\* every job a source yielded is in the returned list (itself or the job
\* it duplicates), as far as the requested number allows.
C17_BackendFailureSwallowed ==
  (SearchDone /\ SomeBackendFailed) =>
    /\ search_error = "none"
    /\ Len(search_calls) = Len(expanded_queries) * active_sources(use_sources)
    /\ \A q \in DOMAIN expanded_queries :
         \A b \in {x \in BackendSet : use_sources[x]} :
           \E k \in DOMAIN search_calls :
             search_calls[k].query = q /\ search_calls[k].backend = b
    /\ NothingCut =>
         \A k \in DOMAIN search_calls :
           \A n \in DOMAIN search_calls[k].jobs :
             \E m \in DOMAIN final_jobs :
               /\ final_jobs[m].source = search_calls[k].backend
               /\ \/ final_jobs[m] = search_calls[k].jobs[n]
                  \/ SameUrl(final_jobs[m], search_calls[k].jobs[n])
                  \/ SameTitleAndCompany(final_jobs[m], search_calls[k].jobs[n])

\* JSearch fails on the first query and yields jobs on the second, which
\* are returned
C17_Witness ==
  /\ SearchDone
  /\ Len(expanded_queries) = 2
  /\ active_sources(use_sources) = 3
  /\ search_calls[1].backend = "jsearch"
  /\ search_calls[1].failed
  /\ search_calls[4].backend = "jsearch"
  /\ ~search_calls[4].failed
  /\ Len(search_calls[4].jobs) = 3
  /\ Len(final_jobs) = 3
  /\ search_error = "none"

\* every call of every source failed: the result is the empty list
C17_AllFailedReached ==
  /\ SearchDone
  /\ Len(search_calls) = 6
  /\ \A k \in DOMAIN search_calls : search_calls[k].failed
  /\ final_jobs = <<>>
  /\ search_error = "none"

NewsTimeout == 60

\* the seconds one call of FirecrawlApp.search may take
QueryDurations == {5, 35}

\* search_queries: two about reviews and culture, one about funding news.
\* The branch a result takes depends on words of the query ("glassdoor",
\* "reddit", ... / "news", "funding"); no company name of NewsCompanies
\* contains one of them.
QueryKinds == <<"review", "review", "news">>

NewsCompanies == {"Acme", "Globex"}

\* One search result, after the tests of _search_firecrawl on its text:
\*   relevant    it passes the filters (length, company name, spam,
\*               domains, career sites)
\*   positive, negative   the numbers of positive and negative words
\*   culture     it has one of "culture", "work-life", "remote", "benefits"
WebResult(title, relevant, positive, negative, culture) ==
  [title |-> title, relevant |-> relevant, positive |-> positive,
   negative |-> negative, culture |-> culture]

Praise == WebResult("great culture", TRUE, 2, 0, TRUE)
Complaint == WebResult("toxic team", TRUE, 0, 1, FALSE)
Plain == WebResult("interview notes", TRUE, 0, 0, FALSE)
Spam == WebResult("buy now", FALSE, 1, 0, FALSE)

\* what FirecrawlApp.search may answer: an exception or a list of results
WebAnswers ==
  { [raised |-> TRUE, web |-> <<>>] }
    \cup { [raised |-> FALSE, web |-> w] :
             w \in {<<>>, <<Praise>>, <<Complaint>>, <<Plain>>, <<Spam>>} }

NewsArgs == [company_name : NewsCompanies, role : {"", "Backend Developer"}, openai_client : BOOLEAN]

EmptyScan ==
  [query_no |-> 1, highlights |-> <<>>, news_items |-> <<>>, culture_notes |-> <<>>,
   sentiment_scores |-> <<>>, clock |-> 0, raised |-> <<>>]

\* the body of "for result in web_results" for one result
RECURSIVE ScanResults(_, _, _, _)
ScanResults(scan, kind, web, k) ==
  IF k > Len(web) THEN scan
  ELSE LET r == web[k]
           score == IF r.positive > r.negative THEN 1
                    ELSE IF r.negative > r.positive THEN -1 ELSE 0
           after ==
             IF ~r.relevant THEN scan
             ELSE IF kind = "review"
               THEN [scan EXCEPT !.highlights = Append(@, r.title),
                                 !.sentiment_scores = Append(@, score),
                                 !.culture_notes = IF r.culture THEN Append(@, r.title) ELSE @]
             ELSE [scan EXCEPT !.news_items = Append(@, r.title)]
       IN  ScanResults(after, kind, web, k + 1)

RECURSIVE SumFrom(_, _)
SumFrom(list, k) == IF k > Len(list) THEN 0 ELSE list[k] + SumFrom(list, k + 1)

\* avg_sentiment = sum(sentiment_scores) / len(sentiment_scores);
\* > 0.2 positive, < -0.2 negative, else neutral; neutral without scores
OverallSentiment(sentiment_scores) ==
  IF sentiment_scores = <<>> THEN "neutral"
  ELSE IF 5 * SumFrom(sentiment_scores, 1) > Len(sentiment_scores) THEN "positive"
  ELSE IF 5 * SumFrom(sentiment_scores, 1) < 0 - Len(sentiment_scores) THEN "negative"
  ELSE "neutral"

NewsInsights(company_name, reddit_sentiment, reddit_highlights, recent_news, culture_notes, data_source) ==
  [company_name |-> company_name, reddit_sentiment |-> reddit_sentiment,
   reddit_highlights |-> reddit_highlights, recent_news |-> recent_news,
   culture_notes |-> culture_notes, data_source |-> data_source]

\* what _search_firecrawl returns after its loop; an exception of one
\* query is caught in the loop, so the function itself raises nothing
_search_firecrawl(company_name, scan) ==
  IF scan.highlights = <<>> /\ scan.news_items = <<>>
    THEN [err |-> "none",
          value |-> NewsInsights(company_name, "neutral", <<>>, <<>>, <<>>, "firecrawl")]
    ELSE [err |-> "none",
          value |-> NewsInsights(company_name, OverallSentiment(scan.sentiment_scores),
                                 Prefix(scan.highlights, 10), Prefix(scan.news_items, 5),
                                 Prefix(scan.culture_notes, 5), "firecrawl")]

\* asyncio.wait_for(coroutine, timeout): the timeout is delivered only to a
\* coroutine that suspends
wait_for(outcome, seconds, suspends) ==
  IF suspends /\ seconds > NewsTimeout
    THEN [err |-> "TimeoutError", value |-> <<>>]
    ELSE outcome

\* _search_firecrawl has no await
SearchSuspends == FALSE

NewsInit ==
  /\ MatcherIdle
  /\ ScoreIdle
  /\ HelperIdle
  /\ SearchIdle
  /\ BuildIdle
  /\ SourceIdle
  /\ RunIdle
  /\ ApiIdle
  /\ skill_overlap_memo = SkillOverlapMemo({})
  /\ news_pc = "searching"
  /\ news_args \in NewsArgs
  /\ news_scan = EmptyScan
  /\ news_out = <<>>

\* one round of "for query in search_queries"
SearchQuery ==
  /\ news_pc = "searching"
  /\ news_scan.query_no <= Len(QueryKinds)
  /\ \E answer \in WebAnswers :
       \E seconds \in QueryDurations :
         news_scan' =
           [ScanResults(news_scan, QueryKinds[news_scan.query_no], answer.web, 1)
              EXCEPT !.query_no = @ + 1,
                     !.clock = @ + seconds,
                     !.raised = Append(@, answer.raised)]
  /\ UNCHANGED <<news_pc, news_args, news_out>>
  /\ UNCHANGED <<matcherVars, scoreVars, skill_overlap_memo, helperVars, searchVars, buildVars, sourceVars, runVars, apiVars>>

\* the end of _search_firecrawl, wait_for, the two except branches, the
\* analysis (its summary is not a field of CompanyInsights: the rebuilt
\* record has the six fields of the first), and the return
ReturnInsights ==
  /\ news_pc = "searching"
  /\ news_scan.query_no > Len(QueryKinds)
  /\ \E awaited \in {wait_for(_search_firecrawl(news_args.company_name, news_scan),
                              news_scan.clock, SearchSuspends)} :
       \E insights \in
            { IF awaited.err = "none" THEN awaited.value
              ELSE IF awaited.err = "TimeoutError"
                THEN NewsInsights(news_args.company_name, "neutral",
                                  <<"FireCrawl search timed out">>, <<>>, <<>>, "timeout")
              ELSE NewsInsights(news_args.company_name, "neutral",
                                <<"No web information found">>, <<>>, <<>>, "error") } :
         news_out' =
           [insights |-> insights, error |-> "none",
            ai_asked |-> /\ news_args.role # ""
                         /\ news_args.openai_client
                         /\ (insights.reddit_highlights # <<>> \/ insights.recent_news # <<>>)]
  /\ news_pc' = "done"
  /\ UNCHANGED <<news_args, news_scan>>
  /\ UNCHANGED <<matcherVars, scoreVars, skill_overlap_memo, helperVars, searchVars, buildVars, sourceVars, runVars, apiVars>>

NewsNext ==
  \/ SearchQuery
  \/ ReturnInsights

SpecNews == NewsInit /\ [][NewsNext]_vars

(***************************************************************************)
(* C19: the insights of a company, whatever the web search does            *)
(***************************************************************************)

NewsDone == news_pc = "done"

\* the web search took longer than the timeout
SearchExceededTimeout == news_scan.clock > NewsTimeout

\* every call of the web search raised
SearchRaised == \A k \in DOMAIN news_scan.raised : news_scan.raised[k]

NeutralAndEmpty(insights) ==
  /\ insights.reddit_sentiment = "neutral"
  /\ insights.recent_news = <<>>
  /\ insights.culture_notes = <<>>

\* C19: get_insights returns an insight of the requested company and
\* raises nothing; when the web search took longer than 60 s or raised, the
\* insight has neutral sentiment and empty news and culture lists.
C19_NeutralOnTimeoutOrError ==
  NewsDone =>
    /\ news_out.error = "none"
    /\ news_out.insights.company_name = news_args.company_name
    /\ (SearchExceededTimeout \/ SearchRaised) => NeutralAndEmpty(news_out.insights)

\* a search of 75 s whose findings are returned
C19_Witness ==
  /\ NewsDone
  /\ news_scan.clock = 75
  /\ news_out.insights.reddit_sentiment = "positive"
  /\ news_out.insights.culture_notes # <<>>
  /\ news_out.insights.data_source = "firecrawl"

\* every query raised: neutral, nothing found
C19_AllQueriesRaisedReached ==
  /\ NewsDone
  /\ SearchRaised
  /\ NeutralAndEmpty(news_out.insights)


(***************************************************************************)
(* Construction.  Every constructor reads its credentials from the         *)
(* environment: SmartMatcher, CVAnalyzer and JobScraper need               *)
(* OPENAI_API_KEY, NewsAgent, BraveSearchAgent and FireCrawlJobScraper     *)
(* need their own key and raise ValueError without it.  JobScraper         *)
(* switches a job source off when its key is missing; NewsAgent goes       *)
(* without the language model when OPENAI_API_KEY is missing.              *)
(* JobFinderPipeline builds its four agents one after the other.           *)
(***************************************************************************)

CredentialKeys == {"OPENAI_API_KEY", "JSEARCH_API_KEY", "BRAVE_SEARCH_API_KEY", "FIRECRAWL_API_KEY"}

\* os.getenv(key) is truthy exactly for the keys of the environment
Environments == SUBSET CredentialKeys

Unset == [class |-> "unset"]

Raised(name) == [err |-> name, obj |-> Unset]
Built(obj) == [err |-> "none", obj |-> obj]

\* SmartMatcher.__init__
NewSmartMatcher(env) ==
  IF "OPENAI_API_KEY" \notin env THEN Raised("ValueError")
  ELSE Built([class |-> "SmartMatcher", client |-> "OPENAI_API_KEY",
              embedding_model |-> "text-embedding-3-small"])

\* CVAnalyzer.__init__
NewCVAnalyzer(env) ==
  IF "OPENAI_API_KEY" \notin env THEN Raised("ValueError")
  ELSE Built([class |-> "CVAnalyzer", client |-> "OPENAI_API_KEY", model |-> "gpt-4o-mini"])

\* BraveSearchAgent.__init__
NewBraveSearchAgent(env) ==
  IF "BRAVE_SEARCH_API_KEY" \notin env THEN Raised("ValueError")
  ELSE Built([class |-> "BraveSearchAgent", api_key |-> "BRAVE_SEARCH_API_KEY"])

\* FireCrawlJobScraper.__init__
NewFireCrawlJobScraper(env) ==
  IF "FIRECRAWL_API_KEY" \notin env THEN Raised("ValueError")
  ELSE Built([class |-> "FireCrawlJobScraper", firecrawl |-> "FIRECRAWL_API_KEY"])

\* NewsAgent.__init__: openai_client is None without OPENAI_API_KEY
NewNewsAgent(env) ==
  IF "FIRECRAWL_API_KEY" \notin env THEN Raised("ValueError")
  ELSE Built([class |-> "NewsAgent", firecrawl |-> "FIRECRAWL_API_KEY",
              openai_client |-> IF "OPENAI_API_KEY" \in env THEN "OPENAI_API_KEY" ELSE "None"])

\* deviation: a missing JSEARCH_API_KEY leaves JSearch switched on
NewJobScraperKeepsJSearch(env, use_brave_search, use_firecrawl) ==
  IF "OPENAI_API_KEY" \notin env THEN Raised("ValueError")
  ELSE LET brave == IF use_brave_search THEN NewBraveSearchAgent(env) ELSE Raised("unused")
           firecrawl == IF use_firecrawl THEN NewFireCrawlJobScraper(env) ELSE Raised("unused")
       IN  Built([class |-> "JobScraper",
                  openai_client |-> "OPENAI_API_KEY",
                  use_jsearch |-> TRUE,
                  use_brave_search |-> use_brave_search /\ brave.err = "none",
                  brave_agent |-> brave.obj,
                  use_firecrawl |-> use_firecrawl /\ firecrawl.err = "none",
                  firecrawl_scraper |-> firecrawl.obj])

\* JobScraper.__init__(use_brave_search, use_firecrawl): the ValueError of
\* BraveSearchAgent() and of FireCrawlJobScraper() is caught and the flag of
\* the source is set to False
NewJobScraper(env, use_brave_search, use_firecrawl) ==
  IF "OPENAI_API_KEY" \notin env THEN Raised("ValueError")
  ELSE LET brave == IF use_brave_search THEN NewBraveSearchAgent(env) ELSE Raised("unused")
           firecrawl == IF use_firecrawl THEN NewFireCrawlJobScraper(env) ELSE Raised("unused")
       IN  Built([class |-> "JobScraper",
                  openai_client |-> "OPENAI_API_KEY",
                  use_jsearch |-> "JSEARCH_API_KEY" \in env,
                  use_brave_search |-> use_brave_search /\ brave.err = "none",
                  brave_agent |-> brave.obj,
                  use_firecrawl |-> use_firecrawl /\ firecrawl.err = "none",
                  firecrawl_scraper |-> firecrawl.obj])

\* the agents of JobFinderPipeline.__init__, in the order of construction
PipelineAgents == <<"cv_analyzer", "job_scraper", "news_agent", "matcher">>

NewPipelineAgent(attribute, env) ==
  IF attribute = "cv_analyzer" THEN NewCVAnalyzer(env)
  ELSE IF attribute = "job_scraper" THEN NewJobScraper(env, TRUE, TRUE)
  ELSE IF attribute = "news_agent" THEN NewNewsAgent(env)
  ELSE NewSmartMatcher(env)

BuildTargets ==
  { [class |-> "SmartMatcher", use_brave_search |-> TRUE, use_firecrawl |-> TRUE],
    [class |-> "JobFinderPipeline", use_brave_search |-> TRUE, use_firecrawl |-> TRUE] }
    \cup [class : {"JobScraper"}, use_brave_search : BOOLEAN, use_firecrawl : BOOLEAN]

BuildInit ==
  /\ MatcherIdle
  /\ ScoreIdle
  /\ HelperIdle
  /\ SearchIdle
  /\ NewsIdle
  /\ SourceIdle
  /\ RunIdle
  /\ ApiIdle
  /\ skill_overlap_memo = SkillOverlapMemo({})
  /\ build_pc = "new"
  /\ build_env \in Environments
  /\ build_target \in BuildTargets
  /\ build_parts = <<>>
  /\ build_obj = Unset
  /\ build_error = "none"
  /\ build_step = "none"

\* matcher = SmartMatcher()
ConstructSmartMatcher ==
  /\ build_pc = "new"
  /\ build_target.class = "SmartMatcher"
  /\ \E made \in {NewSmartMatcher(build_env)} :
       /\ build_obj' = made.obj
       /\ build_error' = made.err
       /\ build_pc' = IF made.err = "none" THEN "built" ELSE "failed"
  /\ UNCHANGED <<build_env, build_target, build_parts, build_step>>
  /\ UNCHANGED <<matcherVars, scoreVars, skill_overlap_memo, helperVars, searchVars, newsVars, sourceVars, runVars, apiVars>>

\* scraper = JobScraper(use_brave_search, use_firecrawl)
ConstructJobScraper ==
  /\ build_pc = "new"
  /\ build_target.class = "JobScraper"
  /\ \E made \in {NewJobScraper(build_env, build_target.use_brave_search,
                                build_target.use_firecrawl)} :
       /\ build_obj' = made.obj
       /\ build_error' = made.err
       /\ build_pc' = IF made.err = "none" THEN "built" ELSE "failed"
  /\ UNCHANGED <<build_env, build_target, build_parts, build_step>>
  /\ UNCHANGED <<matcherVars, scoreVars, skill_overlap_memo, helperVars, searchVars, newsVars, sourceVars, runVars, apiVars>>

\* one "self.<agent> = <Agent>()" of JobFinderPipeline.__init__; an
\* exception leaves __init__, and no instance is bound
ConstructPipelineAgent ==
  /\ build_pc = "new"
  /\ build_target.class = "JobFinderPipeline"
  /\ Len(build_parts) < Len(PipelineAgents)
  /\ \E made \in {NewPipelineAgent(PipelineAgents[Len(build_parts) + 1], build_env)} :
       IF made.err = "none"
         THEN /\ build_parts' = Append(build_parts, made.obj)
              /\ UNCHANGED <<build_pc, build_error>>
         ELSE /\ build_error' = made.err
              /\ build_pc' = "failed"
              /\ UNCHANGED build_parts
  /\ UNCHANGED <<build_env, build_target, build_obj, build_step>>
  /\ UNCHANGED <<matcherVars, scoreVars, skill_overlap_memo, helperVars, searchVars, newsVars, sourceVars, runVars, apiVars>>

\* the end of JobFinderPipeline.__init__
FinishPipeline ==
  /\ build_pc = "new"
  /\ build_target.class = "JobFinderPipeline"
  /\ Len(build_parts) = Len(PipelineAgents)
  /\ build_obj' = [class |-> "JobFinderPipeline",
                   cv_analyzer |-> build_parts[1], job_scraper |-> build_parts[2],
                   news_agent |-> build_parts[3], matcher |-> build_parts[4]]
  /\ build_pc' = "built"
  /\ UNCHANGED <<build_env, build_target, build_parts, build_error, build_step>>
  /\ UNCHANGED <<matcherVars, scoreVars, skill_overlap_memo, helperVars, searchVars, newsVars, sourceVars, runVars, apiVars>>

\* scraper.search(...) or pipeline.run(...), which searches first
StartSearch ==
  /\ build_pc = "built"
  /\ build_step = "none"
  /\ build_obj.class \in {"JobScraper", "JobFinderPipeline"}
  /\ build_step' = "search"
  /\ UNCHANGED <<build_pc, build_env, build_target, build_parts, build_obj, build_error>>
  /\ UNCHANGED <<matcherVars, scoreVars, skill_overlap_memo, helperVars, searchVars, newsVars, sourceVars, runVars, apiVars>>

\* matcher.match_and_rank(...)
StartRanking ==
  /\ build_pc = "built"
  /\ build_step \in {"none", "search"}
  /\ build_obj.class \in {"SmartMatcher", "JobFinderPipeline"}
  /\ build_step' = "ranking"
  /\ UNCHANGED <<build_pc, build_env, build_target, build_parts, build_obj, build_error>>
  /\ UNCHANGED <<matcherVars, scoreVars, skill_overlap_memo, helperVars, searchVars, newsVars, sourceVars, runVars, apiVars>>

BuildNext ==
  \/ ConstructSmartMatcher
  \/ ConstructJobScraper
  \/ ConstructPipelineAgent
  \/ FinishPipeline
  \/ StartSearch
  \/ StartRanking

SpecBuild == BuildInit /\ [][BuildNext]_vars

(***************************************************************************)
(* C20: missing credentials and construction                               *)
(***************************************************************************)

BuildOver == build_pc \in {"built", "failed"}

\* the credentials of all the external services the target would use
ServiceKeys(target) ==
  IF target.class = "SmartMatcher" THEN {"OPENAI_API_KEY"}
  ELSE IF target.class = "JobScraper"
    THEN {"OPENAI_API_KEY", "JSEARCH_API_KEY"}
           \cup (IF target.use_brave_search THEN {"BRAVE_SEARCH_API_KEY"} ELSE {})
           \cup (IF target.use_firecrawl THEN {"FIRECRAWL_API_KEY"} ELSE {})
  ELSE CredentialKeys

\* the credentials without which the constructor raises
RequiredKeys(target) ==
  IF target.class = "JobFinderPipeline" THEN {"OPENAI_API_KEY", "FIRECRAWL_API_KEY"}
  ELSE {"OPENAI_API_KEY"}

ScraperHasCredentials(scraper) ==
  /\ scraper.openai_client \in build_env
  /\ scraper.use_jsearch => "JSEARCH_API_KEY" \in build_env
  /\ scraper.use_brave_search =>
       /\ "BRAVE_SEARCH_API_KEY" \in build_env
       /\ scraper.brave_agent # Unset
  /\ scraper.use_firecrawl =>
       /\ "FIRECRAWL_API_KEY" \in build_env
       /\ scraper.firecrawl_scraper # Unset

\* every external service the instance will use has its credential
InstanceHasCredentials ==
  IF build_obj.class = "SmartMatcher" THEN build_obj.client \in build_env
  ELSE IF build_obj.class = "JobScraper" THEN ScraperHasCredentials(build_obj)
  ELSE /\ build_obj.cv_analyzer.client \in build_env
       /\ ScraperHasCredentials(build_obj.job_scraper)
       /\ build_obj.news_agent.firecrawl \in build_env
       /\ build_obj.news_agent.openai_client \in build_env
       /\ build_obj.matcher.client \in build_env

NoInstance ==
  /\ build_obj = Unset
  /\ build_error = "ValueError"
  /\ build_step = "none"

\* C20 as stated: a construction with any credential of its external
\* services missing fails with an error and leaves no instance; an instance
\* has the credentials of its services; a step starts on an instance only.
C20_AnyMissingCredentialFails ==
  /\ BuildOver /\ ~(ServiceKeys(build_target) \subseteq build_env) => NoInstance
  /\ build_obj # Unset => InstanceHasCredentials
  /\ build_step # "none" => build_obj # Unset

\* C20 (amended): a construction without OPENAI_API_KEY (and, for the
\* pipeline, without FIRECRAWL_API_KEY) fails with ValueError and leaves no
\* instance; with them it succeeds, and JobScraper has a job source switched
\* on exactly when the source was asked for and its key is present; every
\* instance has the credentials of the services it will use; a search or
\* ranking step starts on an instance only.
C20_RequiredCredentialFails ==
  /\ BuildOver /\ ~(RequiredKeys(build_target) \subseteq build_env) => NoInstance
  /\ BuildOver /\ RequiredKeys(build_target) \subseteq build_env =>
       /\ build_obj # Unset
       /\ build_error = "none"
       /\ build_obj.class = build_target.class
       /\ build_target.class = "JobScraper" =>
            /\ build_obj.use_jsearch = ("JSEARCH_API_KEY" \in build_env)
            /\ build_obj.use_brave_search =
                 (build_target.use_brave_search /\ "BRAVE_SEARCH_API_KEY" \in build_env)
            /\ build_obj.use_firecrawl =
                 (build_target.use_firecrawl /\ "FIRECRAWL_API_KEY" \in build_env)
  /\ build_obj # Unset => InstanceHasCredentials
  /\ build_step # "none" => build_obj # Unset

\* a JobScraper built without the keys of JSearch and Brave Search, with
\* both sources switched off, on which a search has started
C20_Witness ==
  /\ build_pc = "built"
  /\ build_target.class = "JobScraper"
  /\ build_target.use_brave_search
  /\ build_env = {"OPENAI_API_KEY", "FIRECRAWL_API_KEY"}
  /\ ~build_obj.use_jsearch
  /\ ~build_obj.use_brave_search
  /\ build_obj.use_firecrawl
  /\ build_step = "search"

\* the pipeline fails at its third agent: two agents were built, no
\* instance is left
C20_PipelineFailsAtNewsAgent ==
  /\ build_pc = "failed"
  /\ build_target.class = "JobFinderPipeline"
  /\ Len(build_parts) = 2
  /\ NoInstance

(***************************************************************************)
(* C27: the returned results and the input jobs                            *)
(***************************************************************************)

\* the result at position k was computed from the input job at its
\* input_index: posting, positional embedding, skills and insight
OwnResult(m) ==
  /\ m.input_index \in DOMAIN jobs
  /\ m.input_index \in DOMAIN job_embeddings
  /\ m.job = jobs[m.input_index]
  /\ m.base_score = _calculate_base_score(cv_embedding, job_embeddings[m.input_index],
                                           cv_analysis.skills,
                                           jobs[m.input_index].description).value
  /\ m.match_score = _apply_insights_bonus(m.base_score, m.company_insights)
  /\ m.skill_overlap = SkillOverlap(cv_analysis.skills, jobs[m.input_index].description).overlapping
  /\ m.skill_gaps = SkillOverlap(cv_analysis.skills, jobs[m.input_index].description).missing
  /\ m.company_insights = FindInsights(company_insights_list, jobs[m.input_index].company)

\* C27: the jobs of the returned list are a permutation of the input jobs:
\* every input position is the input_index of exactly one result, and each
\* result carries the score, overlap, gaps and insight computed from its
\* own posting.
C27_ResultsArePermutation ==
  pc = "returned" =>
    /\ Len(result) = Len(jobs)
    /\ \A k \in DOMAIN jobs :
         \E n \in DOMAIN result :
           /\ result[n].input_index = k
           /\ \A h \in DOMAIN result : result[h].input_index = k => h = n
    /\ \A n \in DOMAIN result : OwnResult(result[n])

\* two jobs, one vector from the batch call: the second job is in no
\* result, the one result is the first job's own
C27_Witness ==
  /\ pc = "returned"
  /\ Len(jobs) = 2
  /\ Len(result) = 1
  /\ result[1].input_index = 1
  /\ OwnResult(result[1])
  /\ \A n \in DOMAIN result : result[n].job # jobs[2]

\* the pairing alone: every returned result is its own job's, in every run
C27_PairingKept ==
  pc = "returned" => \A n \in DOMAIN result : OwnResult(result[n])

\* the sort moved the second job in front of the first, each with its score
C27_SortMovedReached ==
  /\ pc = "returned"
  /\ Len(result) = 2
  /\ result[1].input_index = 2
  /\ result[2].input_index = 1
  /\ OwnResult(result[1])
  /\ OwnResult(result[2])

(***************************************************************************)
(* C28: overlap and gaps of one result are disjoint                        *)
(***************************************************************************)

\* sub is list with some elements left out, the others in their order
IsSubList(sub, list) ==
  \E at \in [DOMAIN sub -> DOMAIN list] :
    /\ \A a, b \in DOMAIN sub : a < b => at[a] < at[b]
    /\ \A a \in DOMAIN sub : sub[a] = list[at[a]]

\* C28: for every candidate skill list and job text no string is in both
\* the overlap list and the gap list of the same result, under exact string
\* equality: the overlap list is a sub-list of the candidate skills and the
\* gap list holds no element of the candidate skills.
C28_OverlapAndGapsDisjoint ==
  (h_op = "_calculate_skill_overlap" /\ h_pc = "done") =>
    /\ Range(h_out.overlapping) \cap Range(h_out.missing) = {}
    /\ IsSubList(h_out.overlapping, h_args.cv_skills)
    /\ Range(h_out.missing) \cap Range(h_args.cv_skills) = {}

\* C28 case: the skills Java and Go and the text "We use C++ and Java":
\* Java, a term of the vocabulary found in the text, is in the overlap and
\* not in the gaps; C++ is the one gap.
C28_Witness ==
  /\ h_op = "_calculate_skill_overlap"
  /\ h_pc = "done"
  /\ h_args.cv_skills = << <<"J","a","v","a">>, <<"G","o">> >>
  /\ h_args.job_description = <<"W","e"," ","u","s","e"," ","C","+","+"," ","a","n","d"," ","J","a","v","a">>
  /\ h_out.overlapping = << <<"J","a","v","a">> >>
  /\ h_out.missing = << <<"C","+","+">> >>

(***************************************************************************)
(* One call of one job source on its own: the three strategies of          *)
(* JobScraper._search_jsearch_api (src/agents/job_scraper.py),             *)
(* BraveSearchAgent.search_jobs (src/agents/brave_search.py) and           *)
(* FireCrawlJobScraper.search (src/agents/firecrawl_scraper.py).           *)
(***************************************************************************)

\* location: Optional[str]; given = FALSE is None
Location(given, text) == [given |-> given, text |-> text]

SourceLocations ==
  { Location(FALSE, <<>>),
    Location(TRUE, <<>>),
    Location(TRUE, <<"H","a","i","f","a">>),
    Location(TRUE, <<"R","e","m","o","t","e">>),
    Location(TRUE, <<"w","o","r","l","d","w","i","d","e">>) }

\* the num_jobs of one source call; search() hands over max(5, ...)
SourceLimits == {1, 5}

SourceArgs == [backend : BackendSet, location : SourceLocations, num_jobs : SourceLimits]

\* what requests.get answers: the status and, with 200, the list under "data"
HttpResponses ==
  { [status |-> 200, data |-> d] : d \in RawResponses } \cup { [status |-> 500, data |-> <<>>] }

\* if location:
LocationGiven(location) == location.given /\ location.text # <<>>

\* deviation: the remote-only query is sent for every location
RemoteQuerySkippedNever(location) == FALSE

\* not (location.lower() not in ["remote", "worldwide"])
RemoteQuerySkipped(location) ==
  Lower(location.text) \in { <<"r","e","m","o","t","e">>,
                             <<"w","o","r","l","d","w","i","d","e">> }

\* if response.status_code == 200: jobs_data = data.get("data", []) ...
\* if len(jobs_data) > 0
FoundJobs(response) == response.status = 200 /\ Len(response.data) > 0

Request(strategy, response) ==
  [strategy |-> strategy, status |-> response.status, data |-> response.data]

SourceInit ==
  /\ MatcherIdle
  /\ ScoreIdle
  /\ HelperIdle
  /\ SearchIdle
  /\ NewsIdle
  /\ BuildIdle
  /\ RunIdle
  /\ ApiIdle
  /\ skill_overlap_memo = SkillOverlapMemo({})
  /\ source_pc = "call"
  /\ source_args \in SourceArgs
  /\ source_requests = <<>>
  /\ source_out = [err |-> "none", jobs |-> <<>>]

\* Strategy 1: the query "<job_title> in <location>"
RequestLocationQuery ==
  /\ source_pc = "call"
  /\ source_args.backend = "jsearch"
  /\ LocationGiven(source_args.location)
  /\ \E response \in HttpResponses :
       /\ source_requests' = Append(source_requests, Request("location", response))
       /\ IF FoundJobs(response)
            THEN /\ source_out' = _convert_to_jobs(response.data, source_args.num_jobs)
                 /\ source_pc' = "returned"
            ELSE /\ source_pc' = "strategy2"
                 /\ UNCHANGED source_out
  /\ UNCHANGED source_args
  /\ UNCHANGED <<matcherVars, scoreVars, skill_overlap_memo, helperVars, searchVars, newsVars, buildVars, runVars, apiVars>>

\* "if location:" is false: strategies 1 and 2 are passed over
SkipLocationStrategies ==
  /\ source_pc = "call"
  /\ source_args.backend = "jsearch"
  /\ ~LocationGiven(source_args.location)
  /\ source_pc' = "strategy3"
  /\ UNCHANGED <<source_args, source_requests, source_out>>
  /\ UNCHANGED <<matcherVars, scoreVars, skill_overlap_memo, helperVars, searchVars, newsVars, buildVars, runVars, apiVars>>

\* Strategy 2: the query "<job_title> remote" with remote_jobs_only
RequestRemoteQuery ==
  /\ source_pc = "strategy2"
  /\ ~RemoteQuerySkipped(source_args.location)
  /\ \E response \in HttpResponses :
       /\ source_requests' = Append(source_requests, Request("remote", response))
       /\ IF FoundJobs(response)
            THEN /\ source_out' = _convert_to_jobs(response.data, source_args.num_jobs)
                 /\ source_pc' = "returned"
            ELSE /\ source_pc' = "strategy3"
                 /\ UNCHANGED source_out
  /\ UNCHANGED source_args
  /\ UNCHANGED <<matcherVars, scoreVars, skill_overlap_memo, helperVars, searchVars, newsVars, buildVars, runVars, apiVars>>

\* the location is "remote" or "worldwide": strategy 2 is passed over
SkipRemoteQuery ==
  /\ source_pc = "strategy2"
  /\ RemoteQuerySkipped(source_args.location)
  /\ source_pc' = "strategy3"
  /\ UNCHANGED <<source_args, source_requests, source_out>>
  /\ UNCHANGED <<matcherVars, scoreVars, skill_overlap_memo, helperVars, searchVars, newsVars, buildVars, runVars, apiVars>>

\* Strategy 3: the job title alone; a status other than 200 raises
RequestGlobalQuery ==
  /\ source_pc = "strategy3"
  /\ \E response \in HttpResponses :
       /\ source_requests' = Append(source_requests, Request("global", response))
       /\ IF response.status # 200
            THEN /\ source_out' = [err |-> "Exception", jobs |-> <<>>]
                 /\ source_pc' = "raised"
            ELSE /\ source_out' = _convert_to_jobs(response.data, source_args.num_jobs)
                 /\ source_pc' = "returned"
  /\ UNCHANGED source_args
  /\ UNCHANGED <<matcherVars, scoreVars, skill_overlap_memo, helperVars, searchVars, newsVars, buildVars, runVars, apiVars>>

\* BraveSearchAgent.search_jobs or FireCrawlJobScraper.search: one request,
\* every exception caught inside
SearchWeb ==
  /\ source_pc = "call"
  /\ source_args.backend \in {"brave_search", "firecrawl"}
  /\ \E response \in HttpResponses :
       /\ source_requests' = Append(source_requests, Request("web", response))
       /\ source_out' = CallBackend(source_args.backend, response.status # 200,
                                    response.data, source_args.num_jobs)
  /\ source_pc' = "returned"
  /\ UNCHANGED source_args
  /\ UNCHANGED <<matcherVars, scoreVars, skill_overlap_memo, helperVars, searchVars, newsVars, buildVars, runVars, apiVars>>

SourceNext ==
  \/ RequestLocationQuery
  \/ SkipLocationStrategies
  \/ RequestRemoteQuery
  \/ SkipRemoteQuery
  \/ RequestGlobalQuery
  \/ SearchWeb

SpecSource == SourceInit /\ [][SourceNext]_vars

(***************************************************************************)
(* C23: the order of the JSearch strategies                                *)
(***************************************************************************)

JSearchCall == source_args.backend = "jsearch"

StrategyRank(strategy) ==
  IF strategy = "location" THEN 1 ELSE IF strategy = "remote" THEN 2 ELSE 3

\* the jobs a request yielded: none unless the status is 200
Yielded(request) == IF request.status = 200 THEN request.data ELSE <<>>

\* the strategies the call may attempt for its location
Attemptable ==
  {"global"}
    \cup (IF source_args.location.given /\ source_args.location.text # <<>>
            THEN {"location"} ELSE {})
    \cup (IF /\ source_args.location.given
             /\ source_args.location.text # <<>>
             /\ Lower(source_args.location.text) # <<"r","e","m","o","t","e">>
             /\ Lower(source_args.location.text) # <<"w","o","r","l","d","w","i","d","e">>
            THEN {"remote"} ELSE {})

\* C23: the requests of _search_jsearch_api are made in the order location
\* query, remote-only query, global query; a later strategy is requested
\* only when every earlier request yielded no jobs; the call returns the
\* jobs of the first request that yielded some and makes no request after
\* it; it returns an empty list only when every strategy it may attempt
\* has been requested and yielded nothing; the remote-only query is never
\* sent without a location or with the location "remote" or "worldwide".
C23_StrategyOrder ==
  JSearchCall =>
    /\ \A a, b \in DOMAIN source_requests :
         a < b => /\ StrategyRank(source_requests[a].strategy)
                       < StrategyRank(source_requests[b].strategy)
                  /\ Yielded(source_requests[a]) = <<>>
    /\ \A a \in DOMAIN source_requests :
         /\ source_requests[a].strategy \in Attemptable
         /\ Yielded(source_requests[a]) # <<>> =>
              /\ source_pc = "returned"
              /\ Len(source_out.jobs) =
                   IntMin(Len(source_requests[a].data), source_args.num_jobs)
              /\ \A n \in DOMAIN source_out.jobs :
                   /\ source_out.jobs[n].title = source_requests[a].data[n].title
                   /\ source_out.jobs[n].company = source_requests[a].data[n].company
                   /\ source_out.jobs[n].url = source_requests[a].data[n].url
    /\ (source_pc = "returned" /\ source_out.jobs = <<>>) =>
         /\ {source_requests[a].strategy : a \in DOMAIN source_requests} = Attemptable
         /\ \A a \in DOMAIN source_requests : Yielded(source_requests[a]) = <<>>

\* the location query failed with status 500, the remote-only query gave
\* an empty list, the global query gave three jobs, which are returned
C23_Witness ==
  /\ JSearchCall
  /\ source_pc = "returned"
  /\ Len(source_requests) = 3
  /\ source_requests[1].strategy = "location"
  /\ source_requests[1].status = 500
  /\ source_requests[2].strategy = "remote"
  /\ source_requests[2].status = 200
  /\ source_requests[2].data = <<>>
  /\ source_requests[3].strategy = "global"
  /\ Len(source_requests[3].data) = 3
  /\ Len(source_out.jobs) = 3

\* the location "Remote": the remote-only query is passed over and the
\* call returns an empty list after two requests
C23_RemoteSkippedReached ==
  /\ JSearchCall
  /\ source_pc = "returned"
  /\ source_args.location.text = <<"R","e","m","o","t","e">>
  /\ Len(source_requests) = 2
  /\ source_requests[2].strategy = "global"
  /\ source_out.jobs = <<>>

\* the call stopped at the location query
C23_StoppedAtFirstReached ==
  /\ JSearchCall
  /\ source_pc = "returned"
  /\ Len(source_requests) = 1
  /\ source_requests[1].strategy = "location"
  /\ Len(source_out.jobs) = 1

(***************************************************************************)
(* C22: what Brave Search and FireCrawl hand back                          *)
(***************************************************************************)

\* the call is an answered request to Brave Search or FireCrawl
AnsweredWebCall ==
  /\ source_args.backend \in {"brave_search", "firecrawl"}
  /\ source_pc = "returned"
  /\ source_requests[1].status = 200

\* C22: every Brave Search or FireCrawl result that passes the filters of
\* its source is turned into a Job and is returned labelled with that
\* source: the jobs of an answered call all carry the label of the source,
\* every result is among them (itself, or for FireCrawl the job of the same
\* title and company it duplicates), and a non-empty list of results is
\* never an empty list of jobs.
C22_WebResultsKept ==
  AnsweredWebCall =>
    /\ \A n \in DOMAIN source_out.jobs :
         source_out.jobs[n].source = source_args.backend
    /\ \A n \in DOMAIN source_requests[1].data :
         \E m \in DOMAIN source_out.jobs :
           SameTitleAndCompany(source_out.jobs[m], source_requests[1].data[n])
    /\ source_requests[1].data # <<>> => source_out.jobs # <<>>

\* Brave Search answered three results and the call gave no job
C22_Witness ==
  /\ AnsweredWebCall
  /\ source_args.backend = "brave_search"
  /\ source_requests[1].data = <<PostB, PostC, PostD>>
  /\ source_out.jobs = <<>>
  /\ source_out.err = "none"

\* FireCrawl answered two results and the call gave no job
C22_FirecrawlEmptiedReached ==
  /\ AnsweredWebCall
  /\ source_args.backend = "firecrawl"
  /\ source_requests[1].data = <<PostA, PostA2>>
  /\ source_out.jobs = <<>>

\* no job of the list JobScraper.search returns carries the label of Brave
\* Search or FireCrawl
C22_OnlyJSearchReturned ==
  SearchDone => \A n \in DOMAIN final_jobs : final_jobs[n].source = "jsearch"

(***************************************************************************)
(* C24, C25, C30: the shares of the sources and the end of the search      *)
(***************************************************************************)

\* the search returned a list, with at least one source enabled
ReturnedWithSources ==
  /\ SearchDone
  /\ search_error = "none"
  /\ active_sources(use_sources) >= 1

\* the jobs of the returned list that carry the label of source b
ReturnedFrom(b) ==
  Cardinality({n \in DOMAIN final_jobs : final_jobs[n].source = b})

\* the unique jobs source b collected over all queries
UniqueFound(b) == Len(deduplicate_jobs(all_jobs[b]))

EnabledSources == {b \in BackendSet : use_sources[b]}

EvenShare == num_jobs \div active_sources(use_sources)

C24_ShareOfOneReached ==
  /\ ReturnedWithSources
  /\ active_sources(use_sources) = 2
  /\ num_jobs = 2
  /\ UniqueFound("jsearch") = 3
  /\ ReturnedFrom("jsearch") = 1

\* C25: when an enabled source holds fewer unique jobs than its even share
\* and another enabled source holds more than its share, the shortfall goes
\* to the other sources: the returned list holds min(num_jobs, total number
\* of unique jobs found) jobs.
C25_ShortfallRedistributed ==
  ( /\ ReturnedWithSources
    /\ \E b \in EnabledSources : UniqueFound(b) < EvenShare
    /\ \E c \in EnabledSources : UniqueFound(c) > EvenShare ) =>
    Len(final_jobs) =
      IntMin(num_jobs,
             UniqueFound("jsearch") + UniqueFound("brave_search") + UniqueFound("firecrawl"))

\* JSearch and Brave Search enabled, two jobs asked for, one query: JSearch
\* holds three unique jobs, Brave Search none, and one job is returned
C25_Witness ==
  /\ ReturnedWithSources
  /\ use_sources = [b \in BackendSet |-> b # "firecrawl"]
  /\ num_jobs = 2
  /\ Len(expanded_queries) = 1
  /\ ~search_calls[2].failed
  /\ UniqueFound("jsearch") = 3
  /\ UniqueFound("brave_search") = 0
  /\ Len(final_jobs) = 1

\* C30: with at least one source enabled the search ends with a list and
\* raises nothing, whatever the query expansion returned, a list without
\* any title included, and for every num_jobs >= 0.
C30_SearchNeverRaises ==
  (SearchDone /\ active_sources(use_sources) >= 1) => search_error = "none"

\* the expansion returned no title and the search ended in an error
C30_Witness ==
  /\ SearchDone
  /\ active_sources(use_sources) >= 1
  /\ expanded_queries = <<>>
  /\ search_calls = <<>>
  /\ search_error = "ZeroDivisionError"

\* with at least one title the search returns a list, for num_jobs = 0 the
\* empty one
C30_ZeroJobsReached ==
  /\ ReturnedWithSources
  /\ num_jobs = 0
  /\ Len(expanded_queries) = 2
  /\ UniqueFound("jsearch") = 3
  /\ final_jobs = <<>>

\* the search raises only after an empty expansion
C30_RaisesOnlyOnEmptyExpansion ==
  search_error # "none" => (search_error = "ZeroDivisionError" /\ expanded_queries = <<>>)

(***************************************************************************)
(* JobFinderPipeline.run (src/pipeline/orchestrator.py): CV analysis and   *)
(* job search under one asyncio.gather, then one get_insights per job      *)
(* under a second gather, then match_and_rank.                             *)
(*                                                                         *)
(* gather() without return_exceptions: it returns when every awaitable has *)
(* returned, and raises into run with the first exception of any of them;  *)
(* the other awaitables are not cancelled and run on.  The event loop      *)
(* chooses the order of the steps; the agents of this repository call      *)
(* their services without suspending, which is one of these orders.        *)
(***************************************************************************)

\* most jobs the search hands to the pipeline
MaxRunJobs == 3

\* deviation: gather returns once every awaitable has ended, failed or not
GatherReturnsWhenSettled(statuses) ==
  \A k \in DOMAIN statuses : statuses[k] \in {"done", "failed"}

\* await asyncio.gather(...) returns the list of results
GatherReturns(statuses) == \A k \in DOMAIN statuses : statuses[k] = "done"

\* await asyncio.gather(...) raises the first exception
GatherRaises(statuses) == \E k \in DOMAIN statuses : statuses[k] = "failed"

TasksCreated == run_pc # "idle"

RunInit ==
  /\ MatcherIdle
  /\ ScoreIdle
  /\ HelperIdle
  /\ SearchIdle
  /\ NewsIdle
  /\ BuildIdle
  /\ SourceIdle
  /\ ApiIdle
  /\ skill_overlap_memo = SkillOverlapMemo({})
  /\ run_pc = "stage1"
  /\ run_tasks = [cv |-> "pending", jobs |-> "pending"]
  /\ run_found = 0
  /\ run_insights = <<>>
  /\ run_matcher = "not_invoked"

\* the event loop runs the first step of _run_cv_analyzer
AnalyzeCvStarts ==
  /\ TasksCreated
  /\ run_tasks.cv = "pending"
  /\ run_tasks' = [run_tasks EXCEPT !.cv = "running"]
  /\ UNCHANGED <<run_pc, run_found, run_insights, run_matcher>>
  /\ UNCHANGED <<matcherVars, scoreVars, skill_overlap_memo, helperVars, searchVars, newsVars, buildVars, sourceVars, apiVars>>

\* cv_analysis = await self.cv_analyzer.analyze(cv_path); return cv_analysis
AnalyzeCvReturns ==
  /\ run_tasks.cv = "running"
  /\ run_tasks' = [run_tasks EXCEPT !.cv = "done"]
  /\ UNCHANGED <<run_pc, run_found, run_insights, run_matcher>>
  /\ UNCHANGED <<matcherVars, scoreVars, skill_overlap_memo, helperVars, searchVars, newsVars, buildVars, sourceVars, apiVars>>

\* analyze raises (file not found, the language model call failed, ...)
AnalyzeCvRaises ==
  /\ run_tasks.cv = "running"
  /\ run_tasks' = [run_tasks EXCEPT !.cv = "failed"]
  /\ UNCHANGED <<run_pc, run_found, run_insights, run_matcher>>
  /\ UNCHANGED <<matcherVars, scoreVars, skill_overlap_memo, helperVars, searchVars, newsVars, buildVars, sourceVars, apiVars>>

\* the event loop runs the first step of _run_job_scraper
SearchJobsStarts ==
  /\ TasksCreated
  /\ run_tasks.jobs = "pending"
  /\ run_tasks' = [run_tasks EXCEPT !.jobs = "running"]
  /\ UNCHANGED <<run_pc, run_found, run_insights, run_matcher>>
  /\ UNCHANGED <<matcherVars, scoreVars, skill_overlap_memo, helperVars, searchVars, newsVars, buildVars, sourceVars, apiVars>>

\* jobs = await self.job_scraper.search(job_title, location, num_jobs); return jobs
SearchJobsReturns ==
  /\ run_tasks.jobs = "running"
  /\ \E found \in 0..MaxRunJobs : run_found' = found
  /\ run_tasks' = [run_tasks EXCEPT !.jobs = "done"]
  /\ UNCHANGED <<run_pc, run_insights, run_matcher>>
  /\ UNCHANGED <<matcherVars, scoreVars, skill_overlap_memo, helperVars, searchVars, newsVars, buildVars, sourceVars, apiVars>>

\* search raises (the ZeroDivisionError of an empty query expansion)
SearchJobsRaises ==
  /\ run_tasks.jobs = "running"
  /\ run_tasks' = [run_tasks EXCEPT !.jobs = "failed"]
  /\ UNCHANGED <<run_pc, run_found, run_insights, run_matcher>>
  /\ UNCHANGED <<matcherVars, scoreVars, skill_overlap_memo, helperVars, searchVars, newsVars, buildVars, sourceVars, apiVars>>

\* cv_analysis, jobs = await asyncio.gather(cv_task, jobs_task) returns;
\* _run_news_agent builds one get_insights per job and awaits their gather
GatherStage1Returns ==
  /\ run_pc = "stage1"
  /\ GatherReturns(<<run_tasks.cv, run_tasks.jobs>>)
  /\ run_insights' = [k \in 1..run_found |-> "pending"]
  /\ run_pc' = "stage2"
  /\ UNCHANGED <<run_tasks, run_found, run_matcher>>
  /\ UNCHANGED <<matcherVars, scoreVars, skill_overlap_memo, helperVars, searchVars, newsVars, buildVars, sourceVars, apiVars>>

\* the gather of stage 1 raises into run, which has no handler
GatherStage1Raises ==
  /\ run_pc = "stage1"
  /\ GatherRaises(<<run_tasks.cv, run_tasks.jobs>>)
  /\ run_pc' = "failed"
  /\ UNCHANGED <<run_tasks, run_found, run_insights, run_matcher>>
  /\ UNCHANGED <<matcherVars, scoreVars, skill_overlap_memo, helperVars, searchVars, newsVars, buildVars, sourceVars, apiVars>>

\* the event loop runs the first step of one get_insights(job.company)
InsightStarts ==
  /\ \E k \in DOMAIN run_insights :
       /\ run_insights[k] = "pending"
       /\ run_insights' = [run_insights EXCEPT ![k] = "running"]
  /\ UNCHANGED <<run_pc, run_tasks, run_found, run_matcher>>
  /\ UNCHANGED <<matcherVars, scoreVars, skill_overlap_memo, helperVars, searchVars, newsVars, buildVars, sourceVars, apiVars>>

\* get_insights returns its CompanyInsights
InsightReturns ==
  /\ \E k \in DOMAIN run_insights :
       /\ run_insights[k] = "running"
       /\ run_insights' = [run_insights EXCEPT ![k] = "done"]
  /\ UNCHANGED <<run_pc, run_tasks, run_found, run_matcher>>
  /\ UNCHANGED <<matcherVars, scoreVars, skill_overlap_memo, helperVars, searchVars, newsVars, buildVars, sourceVars, apiVars>>

\* get_insights raises what its "except Exception" lets through (a
\* BaseException such as asyncio.CancelledError)
InsightRaises ==
  /\ \E k \in DOMAIN run_insights :
       /\ run_insights[k] = "running"
       /\ run_insights' = [run_insights EXCEPT ![k] = "failed"]
  /\ UNCHANGED <<run_pc, run_tasks, run_found, run_matcher>>
  /\ UNCHANGED <<matcherVars, scoreVars, skill_overlap_memo, helperVars, searchVars, newsVars, buildVars, sourceVars, apiVars>>

\* company_insights = await asyncio.gather(*tasks) returns; run awaits
\* _run_matcher, which calls self.matcher.match_and_rank
GatherInsightsReturns ==
  /\ run_pc = "stage2"
  /\ GatherReturns(run_insights)
  /\ run_matcher' = "running"
  /\ run_pc' = "stage3"
  /\ UNCHANGED <<run_tasks, run_found, run_insights>>
  /\ UNCHANGED <<matcherVars, scoreVars, skill_overlap_memo, helperVars, searchVars, newsVars, buildVars, sourceVars, apiVars>>

\* the gather of the insights raises into run
GatherInsightsRaises ==
  /\ run_pc = "stage2"
  /\ GatherRaises(run_insights)
  /\ run_pc' = "failed"
  /\ UNCHANGED <<run_tasks, run_found, run_insights, run_matcher>>
  /\ UNCHANGED <<matcherVars, scoreVars, skill_overlap_memo, helperVars, searchVars, newsVars, buildVars, sourceVars, apiVars>>

\* matches = await self._run_matcher(...); return matches
MatchAndRankReturns ==
  /\ run_pc = "stage3"
  /\ run_matcher = "running"
  /\ run_matcher' = "done"
  /\ run_pc' = "returned"
  /\ UNCHANGED <<run_tasks, run_found, run_insights>>
  /\ UNCHANGED <<matcherVars, scoreVars, skill_overlap_memo, helperVars, searchVars, newsVars, buildVars, sourceVars, apiVars>>

\* match_and_rank raises (the embedding service failed)
MatchAndRankRaises ==
  /\ run_pc = "stage3"
  /\ run_matcher = "running"
  /\ run_matcher' = "failed"
  /\ run_pc' = "failed"
  /\ UNCHANGED <<run_tasks, run_found, run_insights>>
  /\ UNCHANGED <<matcherVars, scoreVars, skill_overlap_memo, helperVars, searchVars, newsVars, buildVars, sourceVars, apiVars>>

RunNext ==
  \/ AnalyzeCvStarts
  \/ AnalyzeCvReturns
  \/ AnalyzeCvRaises
  \/ SearchJobsStarts
  \/ SearchJobsReturns
  \/ SearchJobsRaises
  \/ GatherStage1Returns
  \/ GatherStage1Raises
  \/ InsightStarts
  \/ InsightReturns
  \/ InsightRaises
  \/ GatherInsightsReturns
  \/ GatherInsightsRaises
  \/ MatchAndRankReturns
  \/ MatchAndRankRaises

SpecRun == RunInit /\ [][RunNext]_vars

\* the event loop runs every ready step: no task and no continuation of
\* run is left waiting for ever
SpecRunLive == RunInit /\ [][RunNext]_vars /\ WF_vars(RunNext)

(***************************************************************************)
(* C21: the order of the stages of run                                     *)
(***************************************************************************)

Stage1Completed == run_tasks.cv = "done" /\ run_tasks.jobs = "done"

SomeInsightStarted == \E k \in DOMAIN run_insights : run_insights[k] # "pending"

EveryInsightCompleted == \A k \in DOMAIN run_insights : run_insights[k] = "done"

MatchAndRankInvoked == run_matcher # "not_invoked"

SomethingFailed ==
  \/ run_tasks.cv = "failed"
  \/ run_tasks.jobs = "failed"
  \/ \E k \in DOMAIN run_insights : run_insights[k] = "failed"

\* the part of C21 that holds in every state
C21_StagesInOrder ==
  /\ SomeInsightStarted => Stage1Completed
  /\ MatchAndRankInvoked =>
       /\ Stage1Completed
       /\ Len(run_insights) = run_found
       /\ EveryInsightCompleted
  /\ SomethingFailed => (~MatchAndRankInvoked /\ run_pc # "returned")

\* C21: whatever the order of the steps of CV analysis and job search, an
\* insight fetch starts only after both have completed, match_and_rank is
\* invoked only after CV analysis, job search and every insight fetch have
\* completed, and when one of them fails match_and_rank is never invoked
\* and run fails.
C21_RunOrder ==
  /\ []C21_StagesInOrder
  /\ (SomethingFailed ~> (run_pc = "failed"))

\* run returned after two insight fetches, the job search having ended
\* before the CV analysis or after it
C21_Witness ==
  /\ run_pc = "returned"
  /\ run_found = 2
  /\ Stage1Completed
  /\ EveryInsightCompleted
  /\ run_matcher = "done"

\* the CV analysis failed before the job search had started: run has
\* failed, the search is still to run
C21_CvFailedFirstReached ==
  /\ run_pc = "failed"
  /\ run_tasks.cv = "failed"
  /\ run_tasks.jobs = "pending"
  /\ ~MatchAndRankInvoked

\* the job search completed while the CV analysis was running
C21_SearchFirstReached ==
  /\ run_pc = "stage1"
  /\ run_tasks.cv = "running"
  /\ run_tasks.jobs = "done"

\* one insight fetch failed while the other was running: run has failed
C21_InsightFailedReached ==
  /\ run_pc = "failed"
  /\ Len(run_insights) = 2
  /\ run_insights[1] = "failed"
  /\ run_insights[2] = "running"
  /\ ~MatchAndRankInvoked

(***************************************************************************)
(* The Flask handlers of src/api/server.py.  app.run serves each request   *)
(* in a thread of its own, so a GET /api/job-matches and a                 *)
(* POST /api/run-pipeline run side by side, one statement at a time, on    *)
(* the module globals latest_matches and search_config.                    *)
(*                                                                         *)
(* run_pipeline builds its pipeline with JobFinderPipeline(use_mock_data=  *)
(* False), and JobFinderPipeline.__init__(self) takes no such argument     *)
(* (src/pipeline/orchestrator.py:36): the call raises TypeError inside the *)
(* try block, so the statements after it (server.py:79-99, the run and the *)
(* two assignments to the globals) are never reached.                      *)
(***************************************************************************)

\* the parameters JobFinderPipeline.__init__ takes besides self
PipelineParameters == {}

\* JobFinderPipeline(**keywords): a keyword __init__ does not take is a
\* TypeError
CallJobFinderPipeline(keywords) ==
  IF keywords \subseteq PipelineParameters THEN "none" ELSE "TypeError"

\* text of the form field num_jobs; "absent" is the missing field, for
\* which request.form.get('num_jobs', 20) gives 20
NumJobsFields == {"absent", "5", "abc", ""}

\* int(request.form.get('num_jobs', 20))
ParseNumJobs(field) ==
  IF field = "absent" THEN [err |-> "none", value |-> 20]
  ELSE IF field = "5" THEN [err |-> "none", value |-> 5]
  ELSE [err |-> "ValueError", value |-> 0]

\* the requests a client may send to /api/run-pipeline
PostRequests ==
  [method : {"POST"}, job_title : {"", "Python Developer"},
   num_jobs : NumJobsFields, cv_file : {"", "cv.pdf"}]
    \cup [method : {"OPTIONS"}, job_title : {""}, num_jobs : {"absent"}, cv_file : {""}]

\* latest_matches = [] and search_config = {} of the module
NoMatches == <<>>
EmptyConfig == <<>>

Response(status, body) == [status |-> status, body |-> body]

ApiInit ==
  /\ MatcherIdle
  /\ ScoreIdle
  /\ HelperIdle
  /\ SearchIdle
  /\ NewsIdle
  /\ BuildIdle
  /\ SourceIdle
  /\ RunIdle
  /\ skill_overlap_memo = SkillOverlapMemo({})
  /\ latest_matches = NoMatches
  /\ search_config = EmptyConfig
  /\ api_disk = {}
  /\ \E request \in PostRequests :
       api_post = [pc |-> "received", request |-> request,
                   before |-> <<NoMatches, EmptyConfig>>,
                   response |-> Response(0, "")]
  /\ api_get = [pc |-> "received", matches |-> <<>>, config |-> <<>>,
                response |-> Response(0, "")]

\* 'matches': [match_to_dict(m) for m in latest_matches]
GetReadMatches ==
  /\ api_get.pc = "received"
  /\ api_get' = [api_get EXCEPT !.pc = "matches_read", !.matches = latest_matches]
  /\ UNCHANGED <<latest_matches, search_config, api_disk, api_post>>
  /\ UNCHANGED <<matcherVars, scoreVars, skill_overlap_memo, helperVars, searchVars, newsVars, buildVars, sourceVars, runVars>>

\* 'config': search_config, and the response is sent
GetReadConfig ==
  /\ api_get.pc = "matches_read"
  /\ api_get' = [api_get EXCEPT !.pc = "responded", !.config = search_config,
                                !.response = Response(200, "matches")]
  /\ UNCHANGED <<latest_matches, search_config, api_disk, api_post>>
  /\ UNCHANGED <<matcherVars, scoreVars, skill_overlap_memo, helperVars, searchVars, newsVars, buildVars, sourceVars, runVars>>

\* if request.method == 'OPTIONS': return response
PostPreflight ==
  /\ api_post.pc = "received"
  /\ api_post.request.method = "OPTIONS"
  /\ api_post' = [api_post EXCEPT !.pc = "responded", !.response = Response(200, "ok")]
  /\ UNCHANGED <<latest_matches, search_config, api_disk, api_get>>
  /\ UNCHANGED <<matcherVars, scoreVars, skill_overlap_memo, helperVars, searchVars, newsVars, buildVars, sourceVars, runVars>>

\* job_title, location, num_jobs = int(...): a field that is no number
\* raises ValueError, which the except branch answers with 500
PostParseForm ==
  /\ api_post.pc = "received"
  /\ api_post.request.method = "POST"
  /\ api_post' =
       IF ParseNumJobs(api_post.request.num_jobs).err # "none"
         THEN [api_post EXCEPT !.pc = "responded",
                               !.response = Response(500, ParseNumJobs(api_post.request.num_jobs).err)]
         ELSE [api_post EXCEPT !.pc = "upload"]
  /\ UNCHANGED <<latest_matches, search_config, api_disk, api_get>>
  /\ UNCHANGED <<matcherVars, scoreVars, skill_overlap_memo, helperVars, searchVars, newsVars, buildVars, sourceVars, runVars>>

\* if 'cv_file' in request.files: ... cv_file.save(cv_path)
PostSaveCvFile ==
  /\ api_post.pc = "upload"
  /\ api_disk' = IF api_post.request.cv_file # ""
                   THEN api_disk \cup {api_post.request.cv_file}
                   ELSE api_disk
  /\ api_post' = [api_post EXCEPT !.pc = "validate"]
  /\ UNCHANGED <<latest_matches, search_config, api_get>>
  /\ UNCHANGED <<matcherVars, scoreVars, skill_overlap_memo, helperVars, searchVars, newsVars, buildVars, sourceVars, runVars>>

\* deviation: search_config is written as soon as the form is valid
PostValidateWritesConfig ==
  /\ api_post.pc = "validate"
  /\ search_config' = IF api_post.request.job_title = ""
                        THEN search_config
                        ELSE [role |-> api_post.request.job_title, location |-> "",
                              cv_analyzed |-> FALSE, num_jobs |-> 0]
  /\ api_post' =
       IF api_post.request.job_title = ""
         THEN [api_post EXCEPT !.pc = "responded",
                               !.response = Response(400, "job_title is required")]
         ELSE [api_post EXCEPT !.pc = "construct"]
  /\ UNCHANGED <<latest_matches, api_disk, api_get>>
  /\ UNCHANGED <<matcherVars, scoreVars, skill_overlap_memo, helperVars, searchVars, newsVars, buildVars, sourceVars, runVars>>

\* if not job_title: return jsonify({'error': 'job_title is required'}), 400
PostValidate ==
  /\ api_post.pc = "validate"
  /\ api_post' =
       IF api_post.request.job_title = ""
         THEN [api_post EXCEPT !.pc = "responded",
                               !.response = Response(400, "job_title is required")]
         ELSE [api_post EXCEPT !.pc = "construct"]
  /\ UNCHANGED <<latest_matches, search_config, api_disk, api_get>>
  /\ UNCHANGED <<matcherVars, scoreVars, skill_overlap_memo, helperVars, searchVars, newsVars, buildVars, sourceVars, runVars>>

\* deviation: the constructor takes use_mock_data, the run returns two
\* matches and "latest_matches = matches" is executed; the assignment to
\* search_config is the next statement
PostConstructRunsAndAssignsMatches ==
  /\ api_post.pc = "construct"
  /\ latest_matches' = <<"match1", "match2">>
  /\ api_post' = [api_post EXCEPT !.pc = "assign_config"]
  /\ UNCHANGED <<search_config, api_disk, api_get>>
  /\ UNCHANGED <<matcherVars, scoreVars, skill_overlap_memo, helperVars, searchVars, newsVars, buildVars, sourceVars, runVars>>

\* pipeline = JobFinderPipeline(use_mock_data=False) raises TypeError;
\* except Exception as e: return jsonify({'error': str(e), ...}), 500
PostConstructPipeline ==
  /\ api_post.pc = "construct"
  /\ CallJobFinderPipeline({"use_mock_data"}) # "none"
  /\ api_post' = [api_post EXCEPT !.pc = "responded",
                                  !.response = Response(500, CallJobFinderPipeline({"use_mock_data"}))]
  /\ UNCHANGED <<latest_matches, search_config, api_disk, api_get>>
  /\ UNCHANGED <<matcherVars, scoreVars, skill_overlap_memo, helperVars, searchVars, newsVars, buildVars, sourceVars, runVars>>

ApiNext ==
  \/ GetReadMatches
  \/ GetReadConfig
  \/ PostPreflight
  \/ PostParseForm
  \/ PostSaveCvFile
  \/ PostValidate
  \/ PostConstructPipeline

SpecApi == ApiInit /\ [][ApiNext]_vars

(***************************************************************************)
(* C26: what a GET reads while a POST runs                                 *)
(***************************************************************************)

GetResponded == api_get.pc = "responded"

PostInProgress == api_post.pc \notin {"received", "responded"}

\* matches and config belong together: both as the module defines them,
\* or the config of a run whose num_jobs is the number of matches
BelongTogether(matches_read, config_read) ==
  \/ /\ matches_read = NoMatches
     /\ config_read = EmptyConfig
  \/ /\ config_read # EmptyConfig
     /\ config_read.num_jobs = Len(matches_read)

C26_AnsweredDuringPostReached ==
  /\ GetResponded
  /\ api_post.pc = "construct"

(***************************************************************************)
(* C29: a failed POST leaves the cache alone                               *)
(***************************************************************************)

PostFailed ==
  /\ api_post.pc = "responded"
  /\ api_post.request.method = "POST"
  /\ api_post.response.status # 200

\* C29: when a POST /api/run-pipeline fails (job_title missing, num_jobs
\* not a number, the pipeline constructor or the run raising) the request
\* is answered with status 400 or 500 and latest_matches and search_config
\* are what they were when the request arrived; the cache differs from that
\* only after a pipeline run that completed.
C29_FailedPostKeepsCache ==
  /\ PostFailed =>
       /\ api_post.response.status \in {400, 500}
       /\ <<latest_matches, search_config>> = api_post.before
  /\ <<latest_matches, search_config>> # api_post.before =>
       /\ api_post.pc = "responded"
       /\ api_post.response.status = 200

\* the request had a job title, a numeric num_jobs and a CV file: the file
\* is saved, the constructor raises, the answer is 500, the cache is as before
C29_Witness ==
  /\ PostFailed
  /\ api_post.request.job_title = "Python Developer"
  /\ api_post.request.num_jobs = "5"
  /\ api_disk = {"cv.pdf"}
  /\ api_post.response = Response(500, "TypeError")
  /\ latest_matches = NoMatches
  /\ search_config = EmptyConfig

\* no job title: 400
C29_MissingTitleReached ==
  /\ PostFailed
  /\ api_post.request.job_title = ""
  /\ api_post.response.status = 400

\* num_jobs is no number: 500, before the job title is looked at
C29_BadNumberReached ==
  /\ PostFailed
  /\ api_post.request.job_title = ""
  /\ api_post.request.num_jobs = "abc"
  /\ api_post.response = Response(500, "ValueError")
  /\ api_disk = {}

\* no POST request is answered with 200: every one fails at the constructor
\* at the latest
C29_NoPostSucceeds ==
  (api_post.pc = "responded" /\ api_post.request.method = "POST") =>
    api_post.response.status \in {400, 500}

====
